---- MODULE Spec2Model ----
(***************************************************************************)
(* Smart-University-CMS: the entity store (Department, Course, Module,     *)
(* Student, User, Enrollment) and the controllers that write it.           *)
(*                                                                         *)
(* A collection is a function from the ids of its stored documents to the  *)
(* documents.  ObjectIds are never reused, so every collection draws its   *)
(* ids from a counter.  A request handler that runs alone is one action    *)
(* (specification Spec); the specification RaceSpec splits the handlers    *)
(* at their awaits so that two requests interleave.                        *)
(*                                                                         *)
(* Query filters are cast by the schema of the queried model, so the       *)
(* setters of a path (uppercase, lowercase) also apply to a filter value.  *)
(***************************************************************************)
EXTENDS Integers, Sequences, FiniteSets, TLC

(***************************************************************************)
(* Bounds of the model.                                                    *)
(***************************************************************************)
MaxDepartments == 2
MaxCourses == 1
MaxModules == 2
MaxEnrollments == 3
MaxStudents == 2
MaxRequests == 2
MaxCatalogDepartments == 2
MaxCatalogCourses == 2
MaxCatalogModules == 2
MaxSemester == 2

DepartmentIds == 1..MaxDepartments
CourseIds == 1..MaxCourses
ModuleIds == 1..MaxModules
StudentIds == 1..MaxStudents

\* The users that hold a session.
SessionUsers == {1, 2}

(***************************************************************************)
(* Strings are sequences of characters, so that String.toUpperCase is a    *)
(* computation and not the identity.                                       *)
(***************************************************************************)
UpperChar(ch) ==
    CASE ch = "c" -> "C"
      [] ch = "s" -> "S"
      [] ch = "m" -> "M"
      [] ch = "a" -> "A"
      [] OTHER -> ch

toUpperCase(s) == [i \in DOMAIN s |-> UpperChar(s[i])]

\* The codes a request may carry, and the department names.
Codes == { <<"c", "s">>, <<"C", "S">>, <<"m", "a">> }
Names == { <<"C", "o", "m", "p">>, <<"M", "a", "t", "h">> }

VARIABLES
    departments,  \* Department collection: id -> [name, code]
    courses,      \* Course collection: id -> [code, department]
    modules,      \* Module collection: id -> [code, course, department, prerequisites]
    students,     \* Student collection: id -> [email, rollNumber, user]
    users,        \* User collection: id -> [email, password, role, isActive]
    enrollments,  \* Enrollment collection: id -> [user, course, status]
    sessions,     \* the session of each client: whether req.session exists and
                  \* the user it holds (id 0 when none)
    nextId,       \* the next fresh id of every collection, and the number of
                  \* the next request to arrive (RaceSpec)
    requests,     \* the request each client has in flight (RaceSpec, PortalSpec)
    last          \* the response sent last

vars == <<departments, courses, modules, students, users, enrollments, sessions,
          nextId, requests, last>>

Clients == {1, 2}
NoString == << >>
Idle == [op |-> "idle"]

\* A session: req.session may not exist (after destroy), may hold no user, or
\* may hold the user object that login put there.  isActive is "true",
\* "false" or "absent" (a user object without the field).
NoSession == [session |-> FALSE, id |-> 0, role |-> "none", isActive |-> "absent"]
EmptySession == [session |-> TRUE, id |-> 0, role |-> "none", isActive |-> "absent"]

\* The response of a handler: the operation, the id it addressed or created
\* (0 when none), the code a create request carried, the session user of a
\* portal request (0 when none), and the outcome: "created" (201), "ok" (200),
\* "duplicate" (400 '... already exists'), "has_dependents" (400 'Cannot
\* delete ...'), "not_found" (404), and for an exception that leaves the
\* handler through asyncHandler "E11000" (the store's duplicate-key error) or
\* "error" (any other).
Response(op, id, code, user, status) ==
    [op |-> op, id |-> id, code |-> code, user |-> user, status |-> status]

Respond(op, id, code, status) == last' = Response(op, id, code, 0, status)

\* The response of a catalog handler that runs alone: it has no request in
\* flight beside it and never touches students, users or enrollments.
Reply(op, id, code, status) ==
    /\ Respond(op, id, code, status)
    /\ UNCHANGED <<students, users, enrollments, sessions, requests>>


(***************************************************************************)
(* String.toLowerCase, for the e-mail addresses; the inputs of the student *)
(* requests.                                                               *)
(***************************************************************************)
LowerChar(ch) ==
    CASE ch = "C" -> "c"
      [] ch = "S" -> "s"
      [] ch = "M" -> "m"
      [] ch = "A" -> "a"
      [] OTHER -> ch

toLowerCase(s) == [i \in 1..Len(s) |-> LowerChar(s[i])]

Emails == { <<"A">>, <<"m">> }
RollNumbers == { <<"c", "s">>, <<"m", "a">> }
Passwords == { <<"p">>, <<"p", "a", "s", "s", "w", "d">> }
ResetPasswords == { << >>, <<"p">>, <<"d", "w", "s", "s", "a", "p">> }

(***************************************************************************)
(* Schema setters (uppercase: true, lowercase: true) applied when a value  *)
(* is stored or a filter is cast.                                          *)
(***************************************************************************)
CastEmail(email) == toLowerCase(email)

CastRollNumber(rollNumber) == toUpperCase(rollNumber)

\* The filter value reaches the store as the request sent it.
CastCode_Raw(code) == code

CastCode(code) == toUpperCase(code)

(***************************************************************************)
(* Unique indexes: the store rejects a write whose key another document    *)
(* holds.                                                                  *)
(***************************************************************************)
DepartmentIndexConflict(ds, id, doc) ==
    \E k \in DOMAIN ds \ {id} : ds[k].name = doc.name \/ ds[k].code = doc.code

\* The Course collection has no unique index on code.
CourseIndexConflict_None(cs, id, doc) == FALSE

CourseIndexConflict(cs, id, doc) ==
    \E k \in DOMAIN cs \ {id} : cs[k].code = doc.code

ModuleIndexConflict(ms, id, doc) ==
    \E k \in DOMAIN ms \ {id} : ms[k].code = doc.code

\* email and rollNumber are unique; user is unique and sparse (0: no user).
StudentIndexConflict(ss, id, doc) ==
    \E k \in DOMAIN ss \ {id} :
        \/ ss[k].email = doc.email
        \/ ss[k].rollNumber = doc.rollNumber
        \/ (doc.user # 0 /\ ss[k].user = doc.user)

\* The e-mail address of a User is unique.
UserIndexConflict(us, id, doc) ==
    \E k \in DOMAIN us \ {id} : us[k].email = doc.email

(***************************************************************************)
(* The pre-check queries of the controllers: Model.findOne(filter), with   *)
(* the ids in `excluded` left out ({ _id: { $ne: id } } on update).  The   *)
(* filter values are cast by the schema before the query runs.             *)
(***************************************************************************)
\* The pre-check looks at the code alone.
departmentExists_CodeOnly(ds, excluded, name, code) ==
    \E k \in DOMAIN ds \ excluded : ds[k].code = CastCode(code)

departmentExists(ds, excluded, name, code) ==
    \E k \in DOMAIN ds \ excluded : ds[k].name = name \/ ds[k].code = CastCode(code)

\* The query leaves out the { _id: { $ne: id } } condition.
courseExists_NoExclusion(cs, excluded, code) ==
    \E k \in DOMAIN cs : cs[k].code = CastCode(code)

courseExists(cs, excluded, code) ==
    \E k \in DOMAIN cs \ excluded : cs[k].code = CastCode(code)

moduleExists(ms, excluded, code) ==
    \E k \in DOMAIN ms \ excluded : ms[k].code = CastCode(code)

studentExists(ss, excluded, email, rollNumber) ==
    \E k \in DOMAIN ss \ excluded :
        ss[k].email = CastEmail(email) \/ ss[k].rollNumber = CastRollNumber(rollNumber)

userExists(us, email) == \E k \in DOMAIN us : us[k].email = CastEmail(email)

\* The pre('save') hook of User stores a hash of a changed password.
Hash(password) == <<"#">> \o password

(***************************************************************************)
(* Assessment weights.  Numbers are counted in thousandths, so that 100 is *)
(* Hundred and the tolerance 0.01 is Tolerance.  A form value is what      *)
(* req.body carries: a text with or without a leading number (`digits`),   *)
(* the value of that number, and whether other text follows it (`suffix`: *)
(* "100abc").  A missing value has neither.                                *)
(***************************************************************************)
Hundred == 100000
Tolerance == 10

Missing == [digits |-> FALSE, value |-> 0, suffix |-> FALSE]
Text == [digits |-> FALSE, value |-> 0, suffix |-> TRUE]
Number(n) == [digits |-> TRUE, value |-> n, suffix |-> FALSE]
NumberText(n) == [digits |-> TRUE, value |-> n, suffix |-> TRUE]

\* The values of examWeight, courseworkWeight and practicalWeight sent in
\* ModuleSpec.
ExamForms == { Number(60000), NumberText(100000), Number(150000), Text }
CourseworkForms == { Number(40000), Number(40005), Number(60000), Number(-50000), Missing }
PracticalForms == { Missing, Number(40000) }

\* The weights of the forms sent in Spec and RaceSpec.
PlainWeights == { [exam |-> Number(60000), coursework |-> Number(40000), practical |-> Missing] }

\* parseFloat(x) || 0: the leading number of the text, 0 when it has none.
parseWeight(raw) == IF raw.digits THEN raw.value ELSE 0

\* const assessmentMethods = { exam, coursework, practical }
assessmentMethods(weights) ==
    [exam |-> parseWeight(weights.exam),
     coursework |-> parseWeight(weights.coursework),
     practical |-> parseWeight(weights.practical)]

\* The sum leaves the practical weight out.
totalWeight_NoPractical(am) == am.exam + am.coursework

\* Object.values(assessmentMethods).reduce((sum, weight) => sum + weight, 0)
totalWeight(am) == am.exam + am.coursework + am.practical

Abs(n) == IF n < 0 THEN -n ELSE n

\* Math.abs(totalWeight - 100) > 0.01
weightsRejected(am) == Abs(totalWeight(am) - Hundred) > Tolerance

\* The schema validators of assessmentMethods: min 0, max 100.
ModuleValidate(doc) ==
    \A f \in {"exam", "coursework", "practical"} :
        doc.assessmentMethods[f] >= 0 /\ doc.assessmentMethods[f] <= Hundred

(***************************************************************************)
(* The dates of a Course.  A date field of a request body is absent, a     *)
(* text that parses to no date, or a day (counted from some first day).    *)
(***************************************************************************)
MaxDay == 3
NoDate == [given |-> FALSE, valid |-> FALSE, time |-> 0]
BadDate == [given |-> TRUE, valid |-> FALSE, time |-> 0]
Day(n) == [given |-> TRUE, valid |-> TRUE, time |-> n]

StartDateForms == { Day(1), Day(2), BadDate, NoDate }
EndDateForms == { Day(1), Day(2), Day(MaxDay), BadDate, NoDate }
PlainStartDate == Day(1)
PlainEndDate == Day(2)

\* new Date(end) <= new Date(start): an absent or unparsable value gives an
\* Invalid Date (NaN), and every comparison with NaN is false.
datesRejected(startDate, endDate) ==
    /\ startDate.valid
    /\ endDate.valid
    /\ endDate.time <= startDate.time

\* The document the handlers build: the code upper-cased, the dates as given.
CourseDoc(code, department, startDate, endDate) ==
    [code |-> toUpperCase(code), department |-> department,
     startDate |-> startDate, endDate |-> endDate]

\* Validation of a Course on save: startDate is required and both dates must
\* cast to a Date; the validator of endDate (value > this.startDate) runs
\* when endDate has a value, never on an absent one.
CourseValidate(doc) ==
    /\ doc.startDate.given
    /\ doc.startDate.valid
    /\ doc.endDate.given => /\ doc.endDate.valid
                            /\ doc.endDate.time > doc.startDate.time

(***************************************************************************)
(* Pre-save hooks.                                                         *)
(***************************************************************************)
\* courseSchema.pre('save'): the department must exist.
CoursePreSave(ds, doc) == doc.department \in DOMAIN ds

\* The hook checks existence alone.
ModulePreSave_NoMatch(ds, cs, doc) ==
    /\ doc.course \in DOMAIN cs
    /\ doc.department \in DOMAIN ds

\* moduleSchema.pre('save'): course and department exist and agree.
ModulePreSave(ds, cs, doc) ==
    /\ doc.course \in DOMAIN cs
    /\ doc.department \in DOMAIN ds
    /\ cs[doc.course].department = doc.department

\* Adding or replacing a document of a collection.
Put(coll, id, doc) == [k \in DOMAIN coll \cup {id} |-> IF k = id THEN doc ELSE coll[k]]

\* Removing a document.
Drop(coll, id) == [k \in DOMAIN coll \ {id} |-> coll[k]]

(***************************************************************************)
(* Department controller.                                                  *)
(***************************************************************************)
CreateDepartment(name, code) ==
    LET doc == [name |-> name, code |-> toUpperCase(code)]
        id == nextId.department
    IN  IF departmentExists(departments, {}, name, code)
        THEN /\ Reply("createDepartment", 0, code, "duplicate")
             /\ UNCHANGED <<departments, courses, modules, nextId>>
        ELSE IF DepartmentIndexConflict(departments, id, doc)
        THEN /\ Reply("createDepartment", 0, code, "E11000")
             /\ UNCHANGED <<departments, courses, modules, nextId>>
        ELSE /\ id <= MaxDepartments
             /\ departments' = Put(departments, id, doc)
             /\ nextId' = [nextId EXCEPT !.department = id + 1]
             /\ Reply("createDepartment", id, code, "created")
             /\ UNCHANGED <<courses, modules>>

UpdateDepartment(id, name, code) ==
    LET doc == [name |-> name, code |-> toUpperCase(code)]
    IN  IF id \notin DOMAIN departments
        THEN /\ Reply("updateDepartment", id, NoString, "not_found")
             /\ UNCHANGED <<departments, courses, modules, nextId>>
        ELSE IF departmentExists(departments, {id}, name, toUpperCase(code))
        THEN /\ Reply("updateDepartment", id, NoString, "duplicate")
             /\ UNCHANGED <<departments, courses, modules, nextId>>
        ELSE IF DepartmentIndexConflict(departments, id, doc)
        THEN /\ Reply("updateDepartment", id, NoString, "E11000")
             /\ UNCHANGED <<departments, courses, modules, nextId>>
        ELSE /\ departments' = Put(departments, id, doc)
             /\ Reply("updateDepartment", id, NoString, "ok")
             /\ UNCHANGED <<courses, modules, nextId>>

\* departmentSchema.pre('remove'): the courses of the department go first.
DepartmentPreRemove(cs, id) ==
    [k \in {c \in DOMAIN cs : cs[c].department # id} |-> cs[k]]

\* The count filters on the course's own id.
courseCount_ById(cs, id) == Cardinality({c \in DOMAIN cs : c = id})

\* countDocuments({ department }) of deleteDepartment.
courseCount(cs, id) == Cardinality({c \in DOMAIN cs : cs[c].department = id})

DeleteDepartment(id) ==
    IF id \notin DOMAIN departments
    THEN /\ Reply("deleteDepartment", id, NoString, "not_found")
         /\ UNCHANGED <<departments, courses, modules, nextId>>
    ELSE IF courseCount(courses, id) > 0
    THEN /\ Reply("deleteDepartment", id, NoString, "has_dependents")
         /\ UNCHANGED <<departments, courses, modules, nextId>>
    ELSE /\ courses' = DepartmentPreRemove(courses, id)
         /\ departments' = Drop(departments, id)
         /\ Reply("deleteDepartment", id, NoString, "ok")
         /\ UNCHANGED <<modules, nextId>>

(***************************************************************************)
(* Course controller.                                                      *)
(***************************************************************************)
CreateCourse(code, department, startDate, endDate) ==
    LET doc == CourseDoc(code, department, startDate, endDate)
        id == nextId.course
    IN  IF courseExists(courses, {}, code)
        THEN /\ Reply("createCourse", 0, code, "duplicate")
             /\ UNCHANGED <<departments, courses, modules, nextId>>
        ELSE IF datesRejected(startDate, endDate)
        THEN /\ Reply("createCourse", 0, code, "bad_dates")
             /\ UNCHANGED <<departments, courses, modules, nextId>>
        ELSE IF ~CourseValidate(doc)
        THEN /\ Reply("createCourse", 0, code, "error")
             /\ UNCHANGED <<departments, courses, modules, nextId>>
        ELSE IF ~CoursePreSave(departments, doc)
        THEN /\ Reply("createCourse", 0, code, "error")
             /\ UNCHANGED <<departments, courses, modules, nextId>>
        ELSE IF CourseIndexConflict(courses, id, doc)
        THEN /\ Reply("createCourse", 0, code, "E11000")
             /\ UNCHANGED <<departments, courses, modules, nextId>>
        ELSE /\ id <= MaxCourses
             /\ courses' = Put(courses, id, doc)
             /\ nextId' = [nextId EXCEPT !.course = id + 1]
             /\ Reply("createCourse", id, code, "created")
             /\ UNCHANGED <<departments, modules>>

UpdateCourse(id, code, department, startDate, endDate) ==
    LET doc == CourseDoc(code, department, startDate, endDate)
    IN  IF id \notin DOMAIN courses
        THEN /\ Reply("updateCourse", id, NoString, "not_found")
             /\ UNCHANGED <<departments, courses, modules, nextId>>
        ELSE IF courseExists(courses, {id}, toUpperCase(code))
        THEN /\ Reply("updateCourse", id, NoString, "duplicate")
             /\ UNCHANGED <<departments, courses, modules, nextId>>
        ELSE IF datesRejected(startDate, endDate)
        THEN /\ Reply("updateCourse", id, NoString, "bad_dates")
             /\ UNCHANGED <<departments, courses, modules, nextId>>
        ELSE IF ~CourseValidate(doc)
        THEN /\ Reply("updateCourse", id, NoString, "error")
             /\ UNCHANGED <<departments, courses, modules, nextId>>
        ELSE IF ~CoursePreSave(departments, doc)
        THEN /\ Reply("updateCourse", id, NoString, "error")
             /\ UNCHANGED <<departments, courses, modules, nextId>>
        ELSE IF CourseIndexConflict(courses, id, doc)
        THEN /\ Reply("updateCourse", id, NoString, "E11000")
             /\ UNCHANGED <<departments, courses, modules, nextId>>
        ELSE /\ courses' = Put(courses, id, doc)
             /\ Reply("updateCourse", id, NoString, "ok")
             /\ UNCHANGED <<departments, modules, nextId>>

\* The count filters on the module's department.
moduleCount_ByDepartment(ms, id) == Cardinality({m \in DOMAIN ms : ms[m].department = id})

\* countDocuments({ course }) of deleteCourse.
moduleCount(ms, id) == Cardinality({m \in DOMAIN ms : ms[m].course = id})

DeleteCourse(id) ==
    IF id \notin DOMAIN courses
    THEN /\ Reply("deleteCourse", id, NoString, "not_found")
         /\ UNCHANGED <<departments, courses, modules, nextId>>
    ELSE IF moduleCount(modules, id) > 0
    THEN /\ Reply("deleteCourse", id, NoString, "has_dependents")
         /\ UNCHANGED <<departments, courses, modules, nextId>>
    ELSE /\ courses' = Drop(courses, id)
         /\ Reply("deleteCourse", id, NoString, "ok")
         /\ UNCHANGED <<departments, modules, nextId>>

(***************************************************************************)
(* Module controller.                                                      *)
(***************************************************************************)
\* What a module handler answers: the response and the weights of the form.
ModuleReply(op, id, code, weights, status) ==
    /\ last' = [op |-> op, id |-> id, code |-> code, user |-> 0, status |-> status,
                weights |-> weights]
    /\ UNCHANGED <<students, users, enrollments, sessions, requests>>

CreateModule(code, course, department, prerequisites, weights) ==
    LET doc == [code |-> toUpperCase(code), course |-> course,
                department |-> department, prerequisites |-> prerequisites,
                assessmentMethods |-> assessmentMethods(weights)]
        id == nextId.module
    IN  IF moduleExists(modules, {}, code)
        THEN /\ ModuleReply("createModule", 0, code, weights, "duplicate")
             /\ UNCHANGED <<departments, courses, modules, nextId>>
        ELSE IF weightsRejected(doc.assessmentMethods)
        THEN /\ ModuleReply("createModule", 0, code, weights, "bad_weights")
             /\ UNCHANGED <<departments, courses, modules, nextId>>
        ELSE IF ~ModuleValidate(doc)
        THEN /\ ModuleReply("createModule", 0, code, weights, "error")
             /\ UNCHANGED <<departments, courses, modules, nextId>>
        ELSE IF ~ModulePreSave(departments, courses, doc)
        THEN /\ ModuleReply("createModule", 0, code, weights, "error")
             /\ UNCHANGED <<departments, courses, modules, nextId>>
        ELSE IF ModuleIndexConflict(modules, id, doc)
        THEN /\ ModuleReply("createModule", 0, code, weights, "E11000")
             /\ UNCHANGED <<departments, courses, modules, nextId>>
        ELSE /\ id <= MaxModules
             /\ modules' = Put(modules, id, doc)
             /\ nextId' = [nextId EXCEPT !.module = id + 1]
             /\ ModuleReply("createModule", id, code, weights, "created")
             /\ UNCHANGED <<departments, courses>>

UpdateModule(id, code, course, department, prerequisites, weights) ==
    LET doc == [code |-> toUpperCase(code), course |-> course,
                department |-> department, prerequisites |-> prerequisites,
                assessmentMethods |-> assessmentMethods(weights)]
    IN  IF id \notin DOMAIN modules
        THEN /\ ModuleReply("updateModule", id, NoString, weights, "not_found")
             /\ UNCHANGED <<departments, courses, modules, nextId>>
        ELSE IF moduleExists(modules, {id}, toUpperCase(code))
        THEN /\ ModuleReply("updateModule", id, NoString, weights, "duplicate")
             /\ UNCHANGED <<departments, courses, modules, nextId>>
        ELSE IF weightsRejected(doc.assessmentMethods)
        THEN /\ ModuleReply("updateModule", id, NoString, weights, "bad_weights")
             /\ UNCHANGED <<departments, courses, modules, nextId>>
        ELSE IF ~ModuleValidate(doc)
        THEN /\ ModuleReply("updateModule", id, NoString, weights, "error")
             /\ UNCHANGED <<departments, courses, modules, nextId>>
        ELSE IF ~ModulePreSave(departments, courses, doc)
        THEN /\ ModuleReply("updateModule", id, NoString, weights, "error")
             /\ UNCHANGED <<departments, courses, modules, nextId>>
        ELSE IF ModuleIndexConflict(modules, id, doc)
        THEN /\ ModuleReply("updateModule", id, NoString, weights, "E11000")
             /\ UNCHANGED <<departments, courses, modules, nextId>>
        ELSE /\ modules' = Put(modules, id, doc)
             /\ ModuleReply("updateModule", id, NoString, weights, "ok")
             /\ UNCHANGED <<departments, courses, nextId>>

\* The check looks at the module's own list.
isPrerequisite_OwnList(ms, id) == ms[id].prerequisites # {}

\* Module.exists({ prerequisites: module._id }) of deleteModule.
isPrerequisite(ms, id) == \E m \in DOMAIN ms : id \in ms[m].prerequisites

\* moduleSchema.pre('remove'): $pull the module from every prerequisites list.
ModulePreRemove(ms, id) ==
    [k \in DOMAIN ms |-> [ms[k] EXCEPT !.prerequisites = @ \ {id}]]

DeleteModule(id) ==
    IF id \notin DOMAIN modules
    THEN /\ Reply("deleteModule", id, NoString, "not_found")
         /\ UNCHANGED <<departments, courses, modules, nextId>>
    ELSE IF isPrerequisite(modules, id)
    THEN /\ Reply("deleteModule", id, NoString, "has_dependents")
         /\ UNCHANGED <<departments, courses, modules, nextId>>
    ELSE /\ modules' = Drop(ModulePreRemove(modules, id), id)
         /\ Reply("deleteModule", id, NoString, "ok")
         /\ UNCHANGED <<departments, courses, nextId>>

(***************************************************************************)
(* Portal controller (enrollInCourse, dropFromCourse).  A request is split *)
(* at its awaits: requests[c] holds the handler's position and locals.     *)
(***************************************************************************)
\* The collection has no unique index.
EnrollmentIndexConflict_None(es, doc) == FALSE

\* The unique index { user: 1, course: 1 } of the Enrollment collection.
EnrollmentIndexConflict(es, doc) ==
    \E k \in DOMAIN es : es[k].user = doc.user /\ es[k].course = doc.course

\* POST /portal/enroll reaches the handler.
StartEnroll(c, user, course) ==
    /\ requests[c] = Idle
    /\ requests' = [requests EXCEPT ![c] =
          [op |-> "enrollInCourse", pc |-> "findCourse", user |-> user, course |-> course]]
    /\ UNCHANGED <<departments, courses, modules, students, users, enrollments, sessions,
                   nextId, last>>

\* const course = await Course.findById(courseId)
EnrollFindCourse(c) ==
    LET r == requests[c]
    IN  /\ r.op = "enrollInCourse"
        /\ r.pc = "findCourse"
        /\ IF r.course \notin DOMAIN courses
           THEN /\ last' = Response("enrollInCourse", r.course, NoString, r.user, "not_found")
                /\ requests' = [requests EXCEPT ![c] = Idle]
           ELSE /\ requests' = [requests EXCEPT ![c].pc = "create"]
                /\ UNCHANGED last
        /\ UNCHANGED <<departments, courses, modules, students, users, enrollments, sessions, nextId>>

\* await Enrollment.create(...), with the catch of the duplicate-key error.
EnrollCreate(c) ==
    LET r == requests[c]
        doc == [user |-> r.user, course |-> r.course, status |-> "enrolled"]
        id == nextId.enrollment
    IN  /\ r.op = "enrollInCourse"
        /\ r.pc = "create"
        /\ IF EnrollmentIndexConflict(enrollments, doc)
           THEN /\ last' = Response("enrollInCourse", r.course, NoString, r.user,
                                    "already_enrolled")
                /\ UNCHANGED <<enrollments, nextId>>
           ELSE /\ id <= MaxEnrollments
                /\ enrollments' = Put(enrollments, id, doc)
                /\ nextId' = [nextId EXCEPT !.enrollment = id + 1]
                /\ last' = Response("enrollInCourse", r.course, NoString, r.user, "enrolled")
        /\ requests' = [requests EXCEPT ![c] = Idle]
        /\ UNCHANGED <<departments, courses, modules, students, users, sessions>>

\* POST /portal/drop reaches the handler.
StartDrop(c, user, course) ==
    /\ requests[c] = Idle
    /\ requests' = [requests EXCEPT ![c] =
          [op |-> "dropFromCourse", pc |-> "findEnrollment", user |-> user,
           course |-> course, enrollment |-> 0]]
    /\ UNCHANGED <<departments, courses, modules, students, users, enrollments, sessions,
                   nextId, last>>

\* The filter names the course alone.
findEnrollments_AnyUser(es, user, course) ==
    {k \in DOMAIN es : es[k].course = course}

\* The rows Enrollment.findOne({ user, course }) chooses from.
findEnrollments(es, user, course) ==
    {k \in DOMAIN es : es[k].user = user /\ es[k].course = course}

\* const enrollment = await Enrollment.findOne({ user, course })
DropFindEnrollment(c) ==
    LET r == requests[c]
        found == findEnrollments(enrollments, r.user, r.course)
    IN  /\ r.op = "dropFromCourse"
        /\ r.pc = "findEnrollment"
        /\ IF found = {}
           THEN /\ last' = Response("dropFromCourse", r.course, NoString, r.user, "not_found")
                /\ requests' = [requests EXCEPT ![c] = Idle]
           ELSE /\ \E k \in found :
                     requests' = [requests EXCEPT ![c].pc = "deleteOne",
                                                  ![c].enrollment = k]
                /\ UNCHANGED last
        /\ UNCHANGED <<departments, courses, modules, students, users, enrollments, sessions, nextId>>

\* The drop keeps the row and marks it dropped.
DropDeleteOne_SoftDelete(c) ==
    LET r == requests[c]
    IN  /\ r.op = "dropFromCourse"
        /\ r.pc = "deleteOne"
        /\ enrollments' = [k \in DOMAIN enrollments |->
                              IF k = r.enrollment
                              THEN [enrollments[k] EXCEPT !.status = "dropped"]
                              ELSE enrollments[k]]
        /\ last' = Response("dropFromCourse", r.course, NoString, r.user, "dropped")
        /\ requests' = [requests EXCEPT ![c] = Idle]
        /\ UNCHANGED <<departments, courses, modules, students, users, sessions, nextId>>

\* await enrollment.deleteOne(): a row no longer stored is left alone.
DropDeleteOne(c) ==
    LET r == requests[c]
    IN  /\ r.op = "dropFromCourse"
        /\ r.pc = "deleteOne"
        /\ enrollments' = Drop(enrollments, r.enrollment)
        /\ last' = Response("dropFromCourse", r.course, NoString, r.user, "dropped")
        /\ requests' = [requests EXCEPT ![c] = Idle]
        /\ UNCHANGED <<departments, courses, modules, students, users, sessions, nextId>>


Init ==
    /\ departments = << >>
    /\ courses = << >>
    /\ modules = << >>
    /\ students = << >>
    /\ users = << >>
    /\ enrollments = << >>
    /\ sessions = [c \in Clients |-> NoSession]
    /\ nextId = [department |-> 1, course |-> 1, module |-> 1,
                 student |-> 1, user |-> 1, enrollment |-> 1, request |-> 1]
    /\ requests = [c \in Clients |-> Idle]
    /\ last = Response("none", 0, NoString, 0, "none")

Next ==
    \/ \E name \in Names, code \in Codes : CreateDepartment(name, code)
    \/ \E id \in DepartmentIds, name \in Names, code \in Codes :
            UpdateDepartment(id, name, code)
    \/ \E id \in DepartmentIds : DeleteDepartment(id)
    \/ \E code \in Codes, d \in DepartmentIds :
            CreateCourse(code, d, PlainStartDate, PlainEndDate)
    \/ \E id \in CourseIds, code \in Codes, d \in DepartmentIds :
            UpdateCourse(id, code, d, PlainStartDate, PlainEndDate)
    \/ \E id \in CourseIds : DeleteCourse(id)
    \/ \E code \in Codes, c \in CourseIds, d \in DepartmentIds,
            p \in SUBSET ModuleIds,
            w \in PlainWeights : CreateModule(code, c, d, p, w)
    \/ \E id \in ModuleIds, code \in Codes, c \in CourseIds, d \in DepartmentIds,
            p \in SUBSET ModuleIds,
            w \in PlainWeights : UpdateModule(id, code, c, d, p, w)
    \/ \E id \in ModuleIds : DeleteModule(id)

Spec == Init /\ [][Next]_vars

(***************************************************************************)
(* PortalSpec: the portal requests of two clients interleave with each     *)
(* other and with the course handlers.  It starts from the store that      *)
(* Spec reaches by creating one Department.                                *)
(***************************************************************************)
PortalInit ==
    /\ departments = Put(<< >>, 1, [name |-> <<"C", "o", "m", "p">>, code |-> <<"C", "S">>])
    /\ courses = << >>
    /\ modules = << >>
    /\ students = << >>
    /\ users = << >>
    /\ enrollments = << >>
    /\ sessions = [c \in Clients |-> NoSession]
    /\ nextId = [department |-> 2, course |-> 1, module |-> 1,
                 student |-> 1, user |-> 1, enrollment |-> 1, request |-> 1]
    /\ requests = [c \in Clients |-> Idle]
    /\ last = Response("createDepartment", 1, <<"c", "s">>, 0, "created")

PortalNext ==
    \/ \E code \in Codes, d \in DepartmentIds :
            CreateCourse(code, d, PlainStartDate, PlainEndDate)
    \/ \E id \in CourseIds : DeleteCourse(id)
    \/ \E c \in Clients, u \in SessionUsers, k \in CourseIds : StartEnroll(c, u, k)
    \/ \E c \in Clients : EnrollFindCourse(c)
    \/ \E c \in Clients : EnrollCreate(c)
    \/ \E c \in Clients, u \in SessionUsers, k \in CourseIds : StartDrop(c, u, k)
    \/ \E c \in Clients : DropFindEnrollment(c)
    \/ \E c \in Clients : DropDeleteOne(c)

PortalSpec == PortalInit /\ [][PortalNext]_vars

(***************************************************************************)
(* CourseSpec: the course handlers, one at a time, with the forms of the   *)
(* dates.  It starts from the store that Spec reaches by creating one      *)
(* Department.                                                             *)
(***************************************************************************)
CourseInit ==
    /\ departments = (1 :> [name |-> <<"C", "o", "m", "p">>, code |-> <<"C", "S">>])
    /\ courses = << >>
    /\ modules = << >>
    /\ students = << >>
    /\ users = << >>
    /\ enrollments = << >>
    /\ sessions = [c \in Clients |-> NoSession]
    /\ nextId = [department |-> 2, course |-> 1, module |-> 1,
                 student |-> 1, user |-> 1, enrollment |-> 1, request |-> 1]
    /\ requests = [c \in Clients |-> Idle]
    /\ last = Response("createDepartment", 1, <<"c", "s">>, 0, "created")

CourseNext ==
    \/ \E code \in Codes, d \in DepartmentIds,
            startDate \in StartDateForms, endDate \in EndDateForms :
            CreateCourse(code, d, startDate, endDate)
    \/ \E id \in CourseIds, code \in Codes, d \in DepartmentIds,
            startDate \in StartDateForms, endDate \in EndDateForms :
            UpdateCourse(id, code, d, startDate, endDate)
    \/ \E id \in CourseIds : DeleteCourse(id)

CourseSpec == CourseInit /\ [][CourseNext]_vars

(***************************************************************************)
(* ModuleSpec: the module handlers, one at a time, with the forms of the   *)
(* assessment weights.  It starts from the store that Spec reaches by      *)
(* creating one Department and one Course.                                 *)
(***************************************************************************)
ModuleInit ==
    /\ departments = (1 :> [name |-> <<"C", "o", "m", "p">>, code |-> <<"C", "S">>])
    /\ courses = (1 :> CourseDoc(<<"C", "S">>, 1, PlainStartDate, PlainEndDate))
    /\ modules = << >>
    /\ students = << >>
    /\ users = << >>
    /\ enrollments = << >>
    /\ sessions = [c \in Clients |-> NoSession]
    /\ nextId = [department |-> 2, course |-> 2, module |-> 1,
                 student |-> 1, user |-> 1, enrollment |-> 1, request |-> 1]
    /\ requests = [c \in Clients |-> Idle]
    /\ last = Response("createCourse", 1, <<"c", "s">>, 0, "created")

ModuleNext ==
    \/ \E code \in Codes, c \in CourseIds, d \in DOMAIN departments,
            exam \in ExamForms, coursework \in CourseworkForms, practical \in PracticalForms :
            CreateModule(code, c, d, {},
                         [exam |-> exam, coursework |-> coursework, practical |-> practical])
    \/ \E id \in ModuleIds, code \in Codes, c \in CourseIds, d \in DOMAIN departments,
            exam \in ExamForms, coursework \in CourseworkForms, practical \in PracticalForms :
            UpdateModule(id, code, c, d, {},
                         [exam |-> exam, coursework |-> coursework, practical |-> practical])
    \/ \E id \in ModuleIds : DeleteModule(id)

ModuleSpec == ModuleInit /\ [][ModuleNext]_vars

(***************************************************************************)
(* getStructuredModules.  A JavaScript object with string keys is the      *)
(* sequence of its entries in insertion order (the order of iteration and  *)
(* of res.json); the keys here are ObjectId strings.  The semesters object *)
(* has number keys: it is a function of the semester.                      *)
(***************************************************************************)
\* null: in place of a document, and in place of an id.
Null == [id |-> 0]
NoId == 0

has(obj, key) == \E i \in 1..Len(obj) : obj[i].key = key

get(obj, key) == obj[CHOOSE i \in 1..Len(obj) : obj[i].key = key].value

\* obj[key] = value puts a new key first.
set_Prepend(obj, key, value) ==
    IF has(obj, key)
    THEN [i \in 1..Len(obj) |-> IF obj[i].key = key THEN [key |-> key, value |-> value]
                                                     ELSE obj[i]]
    ELSE <<[key |-> key, value |-> value]>> \o obj

\* obj[key] = value
set(obj, key, value) ==
    IF has(obj, key)
    THEN [i \in 1..Len(obj) |-> IF obj[i].key = key THEN [key |-> key, value |-> value]
                                                     ELSE obj[i]]
    ELSE Append(obj, [key |-> key, value |-> value])

\* populate(path): the referenced document, null when none of the
\* collection has the id.
populate(coll, id) ==
    IF \E i \in 1..Len(coll) : coll[i].id = id
    THEN coll[CHOOSE i \in 1..Len(coll) : coll[i].id = id]
    ELSE Null

\* departments.forEach(dep => { structure[dep._id] = {..., courses: {}} })
RECURSIVE addDepartments(_, _)
addDepartments(structure, deps) ==
    IF deps = << >> THEN structure
    ELSE addDepartments(set(structure, Head(deps).id, [courses |-> << >>]), Tail(deps))

\* courses.forEach(course => { ... }), lines 88-97
RECURSIVE addCourses(_, _)
addCourses(structure, cs) ==
    IF cs = << >> THEN structure
    ELSE LET course == Head(cs)
             depId == course.department
         IN  IF ~has(structure, depId)
             THEN addCourses(structure, Tail(cs))
             ELSE addCourses(
                      set(structure, depId,
                          [courses |-> set(get(structure, depId).courses, course.id,
                                           [semesters |-> << >>])]),
                      Tail(cs))

\* The module's own department whether or not it is stored.
departmentOf_NoPopulate(m, ds, cs) == m.department

\* const depId = m.department ? ... : (m.course && m.course.department ? ... : null)
\* on the populated module.
departmentOf(m, ds, cs) ==
    IF populate(ds, m.department).id # Null.id
    THEN m.department
    ELSE IF populate(cs, m.course).id # Null.id
         THEN populate(cs, m.course).department
         ELSE NoId

\* const courseId = m.course ? String(m.course._id || m.course) : null
courseOf(m, cs) == IF populate(cs, m.course).id # Null.id THEN m.course ELSE NoId

\* semesters[sem].push(m), after semesters[sem] = [] for a new sem
push(semesters, sem, m) ==
    [k \in DOMAIN semesters \cup {sem} |->
        IF k = sem
        THEN (IF sem \in DOMAIN semesters THEN Append(semesters[sem], m) ELSE <<m>>)
        ELSE semesters[k]]

\* modules.forEach(m => { ... }), lines 99-110
RECURSIVE addModules(_, _, _, _)
addModules(structure, ms, ds, cs) ==
    IF ms = << >> THEN structure
    ELSE LET m == Head(ms)
             depId == departmentOf(m, ds, cs)
             courseId == courseOf(m, cs)
         IN  IF depId = NoId \/ ~has(structure, depId)
             THEN addModules(structure, Tail(ms), ds, cs)
             ELSE IF courseId = NoId \/ ~has(get(structure, depId).courses, courseId)
             THEN addModules(structure, Tail(ms), ds, cs)
             ELSE LET dep == get(structure, depId)
                      course == get(dep.courses, courseId)
                  IN  addModules(
                          set(structure, depId,
                              [courses |-> set(dep.courses, courseId,
                                   [semesters |-> push(course.semesters, m.semester, m.id)])]),
                          Tail(ms), ds, cs)

structured(ds, cs, ms) ==
    addModules(addCourses(addDepartments(<< >>, ds), cs), ms, ds, cs)

\* The handler after its await (line 68): the three query results are its
\* locals; it builds the structure and responds with it.
GetStructuredModules(c) ==
    LET r == requests[c]
    IN  /\ r.op = "getStructuredModules"
        /\ r.pc = "build"
        /\ last' = [op |-> "getStructuredModules", id |-> 0, code |-> NoString,
                    user |-> 0, status |-> "ok",
                    found |-> [departments |-> r.departments, courses |-> r.courses,
                               modules |-> r.modules],
                    structure |-> structured(r.departments, r.courses, r.modules)]
        /\ requests' = [requests EXCEPT ![c] = Idle]
        /\ UNCHANGED <<departments, courses, modules, students, users, enrollments, sessions, nextId>>

(***************************************************************************)
(* CatalogSpec: getStructuredModules applied to query results drawn from   *)
(* bounded sets: documents with distinct ids in any order, Courses and     *)
(* Modules whose references may name no document, Modules in the order of  *)
(* their semesters (sort({ semester: 1, name: 1 })).                       *)
(***************************************************************************)
CatalogDepartmentIds == 1..MaxCatalogDepartments
CatalogCourseIds == 1..MaxCatalogCourses
CatalogModuleIds == 1..MaxCatalogModules
Semesters == 1..MaxSemester

\* The sequences of at most n documents of the set, with distinct ids.
ResultsOf(docs, n) ==
    UNION { { q \in [1..len -> docs] : \A i, j \in 1..len : i # j => q[i].id # q[j].id }
            : len \in 0..n }

CatalogInit ==
    /\ departments = << >>
    /\ courses = << >>
    /\ modules = << >>
    /\ students = << >>
    /\ users = << >>
    /\ enrollments = << >>
    /\ sessions = [c \in Clients |-> NoSession]
    /\ nextId = [department |-> 1, course |-> 1, module |-> 1,
                 student |-> 1, user |-> 1, enrollment |-> 1, request |-> 1]
    /\ last = Response("none", 0, NoString, 0, "none")
    /\ \E ds \in ResultsOf([id : CatalogDepartmentIds], MaxCatalogDepartments),
          cs \in ResultsOf([id : CatalogCourseIds, department : CatalogDepartmentIds],
                           MaxCatalogCourses),
          ms \in ResultsOf([id : CatalogModuleIds, department : CatalogDepartmentIds,
                            course : CatalogCourseIds, semester : Semesters],
                           MaxCatalogModules) :
          /\ \A i, j \in 1..Len(ms) : i < j => ms[i].semester <= ms[j].semester
          /\ requests = [c \in Clients |->
                IF c = 1
                THEN [op |-> "getStructuredModules", pc |-> "build",
                      departments |-> ds, courses |-> cs, modules |-> ms]
                ELSE Idle]

CatalogNext == \E c \in Clients : GetStructuredModules(c)

CatalogSpec == CatalogInit /\ [][CatalogNext]_vars

(***************************************************************************)
(* The handlers split at their awaits (RaceSpec).  Between two steps of a  *)
(* request the other client's request may take steps.  A request keeps     *)
(* what it read: `loaded` is the document findById returned.               *)
(***************************************************************************)
\* A request reaches its handler (a client has one request in flight).
Arrive(c, request) ==
    /\ nextId.request <= MaxRequests
    /\ requests' = [requests EXCEPT ![c] = request]
    /\ nextId' = [nextId EXCEPT !.request = @ + 1]
    /\ UNCHANGED <<departments, courses, modules, students, users, enrollments, sessions, last>>

\* The handler moves on to its next await.
Goto(c, pc) ==
    /\ requests' = [requests EXCEPT ![c].pc = pc]
    /\ UNCHANGED last

\* The handler responds (or an exception leaves it) and the request is over.
Finish(c, op, id, code, status) ==
    /\ last' = Response(op, id, code, 0, status)
    /\ requests' = [requests EXCEPT ![c] = Idle]

At(c, op, pc) == requests[c].op = op /\ requests[c].pc = pc

\* doc.save() of a loaded document writes the paths the handler changed
\* ($set of the modified paths) and leaves the others as they are stored.
Modified(loaded, doc) == {f \in DOMAIN doc : doc[f] # loaded[f]}

Merge(stored, loaded, doc) ==
    [f \in DOMAIN doc |-> IF f \in Modified(loaded, doc) THEN doc[f] ELSE stored[f]]

\* The outcomes of save() on a document that is no longer stored: with paths
\* to write the update matches nothing and save throws; with none, it
\* depends on the version of the library whether the document is looked up.
SaveOfMissing(loaded, doc) ==
    IF Modified(loaded, doc) = {} THEN {"ok", "error"} ELSE {"error"}

\* ---- createDepartment ----
StartCreateDepartment(c, name, code) ==
    /\ requests[c] = Idle
    /\ Arrive(c, [op |-> "createDepartment", pc |-> "findOne", name |-> name, code |-> code])

CreateDepartmentFindOne(c) ==
    LET r == requests[c]
    IN  /\ At(c, "createDepartment", "findOne")
        /\ IF departmentExists(departments, {}, r.name, r.code)
           THEN Finish(c, "createDepartment", 0, r.code, "duplicate")
           ELSE Goto(c, "save")
        /\ UNCHANGED <<departments, courses, modules, students, users, enrollments, sessions, nextId>>

CreateDepartmentSave(c) ==
    LET r == requests[c]
        doc == [name |-> r.name, code |-> toUpperCase(r.code)]
        id == nextId.department
    IN  /\ At(c, "createDepartment", "save")
        /\ IF DepartmentIndexConflict(departments, id, doc)
           THEN /\ Finish(c, "createDepartment", 0, r.code, "E11000")
                /\ UNCHANGED <<departments, nextId>>
           ELSE /\ departments' = Put(departments, id, doc)
                /\ nextId' = [nextId EXCEPT !.department = id + 1]
                /\ Finish(c, "createDepartment", id, r.code, "created")
        /\ UNCHANGED <<courses, modules, students, users, enrollments, sessions>>

\* ---- updateDepartment ----
StartUpdateDepartment(c, id, name, code) ==
    /\ requests[c] = Idle
    /\ Arrive(c, [op |-> "updateDepartment", pc |-> "findById", id |-> id,
               name |-> name, code |-> code, loaded |-> << >>])

UpdateDepartmentFindById(c) ==
    LET r == requests[c]
    IN  /\ At(c, "updateDepartment", "findById")
        /\ IF r.id \notin DOMAIN departments
           THEN Finish(c, "updateDepartment", r.id, NoString, "not_found")
           ELSE /\ requests' = [requests EXCEPT ![c].pc = "findOne",
                                                ![c].loaded = departments[r.id]]
                /\ UNCHANGED last
        /\ UNCHANGED <<departments, courses, modules, students, users, enrollments, sessions, nextId>>

UpdateDepartmentFindOne(c) ==
    LET r == requests[c]
    IN  /\ At(c, "updateDepartment", "findOne")
        /\ IF departmentExists(departments, {r.id}, r.name, toUpperCase(r.code))
           THEN Finish(c, "updateDepartment", r.id, NoString, "duplicate")
           ELSE Goto(c, "save")
        /\ UNCHANGED <<departments, courses, modules, students, users, enrollments, sessions, nextId>>

UpdateDepartmentSave(c) ==
    LET r == requests[c]
        doc == [name |-> r.name, code |-> toUpperCase(r.code)]
    IN  /\ At(c, "updateDepartment", "save")
        /\ IF r.id \notin DOMAIN departments
           THEN /\ \E status \in SaveOfMissing(r.loaded, doc) :
                     Finish(c, "updateDepartment", r.id, NoString, status)
                /\ UNCHANGED departments
           ELSE LET merged == Merge(departments[r.id], r.loaded, doc)
                IN  IF DepartmentIndexConflict(departments, r.id, merged)
                    THEN /\ Finish(c, "updateDepartment", r.id, NoString, "E11000")
                         /\ UNCHANGED departments
                    ELSE /\ departments' = Put(departments, r.id, merged)
                         /\ Finish(c, "updateDepartment", r.id, NoString, "ok")
        /\ UNCHANGED <<courses, modules, students, users, enrollments, sessions, nextId>>

\* ---- deleteDepartment ----
StartDeleteDepartment(c, id) ==
    /\ requests[c] = Idle
    /\ Arrive(c, [op |-> "deleteDepartment", pc |-> "findById", id |-> id])

DeleteDepartmentFindById(c) ==
    LET r == requests[c]
    IN  /\ At(c, "deleteDepartment", "findById")
        /\ IF r.id \notin DOMAIN departments
           THEN Finish(c, "deleteDepartment", r.id, NoString, "not_found")
           ELSE Goto(c, "countDocuments")
        /\ UNCHANGED <<departments, courses, modules, students, users, enrollments, sessions, nextId>>

DeleteDepartmentCount(c) ==
    LET r == requests[c]
    IN  /\ At(c, "deleteDepartment", "countDocuments")
        /\ IF courseCount(courses, r.id) > 0
           THEN Finish(c, "deleteDepartment", r.id, NoString, "has_dependents")
           ELSE Goto(c, "preRemove")
        /\ UNCHANGED <<departments, courses, modules, students, users, enrollments, sessions, nextId>>

\* department.remove(): first the pre('remove') hook ...
DeleteDepartmentPreRemove(c) ==
    LET r == requests[c]
    IN  /\ At(c, "deleteDepartment", "preRemove")
        /\ courses' = DepartmentPreRemove(courses, r.id)
        /\ Goto(c, "remove")
        /\ UNCHANGED <<departments, modules, students, users, enrollments, sessions, nextId>>

\* ... then the document itself.
DeleteDepartmentRemove(c) ==
    LET r == requests[c]
    IN  /\ At(c, "deleteDepartment", "remove")
        /\ departments' = Drop(departments, r.id)
        /\ Finish(c, "deleteDepartment", r.id, NoString, "ok")
        /\ UNCHANGED <<courses, modules, students, users, enrollments, sessions, nextId>>

\* ---- createCourse ----
StartCreateCourse(c, code, department, startDate, endDate) ==
    /\ requests[c] = Idle
    /\ Arrive(c, [op |-> "createCourse", pc |-> "findOne", code |-> code,
               department |-> department,
               startDate |-> startDate, endDate |-> endDate])

CreateCourseFindOne(c) ==
    LET r == requests[c]
    IN  /\ At(c, "createCourse", "findOne")
        /\ IF courseExists(courses, {}, r.code)
           THEN Finish(c, "createCourse", 0, r.code, "duplicate")
           ELSE IF datesRejected(r.startDate, r.endDate)
           THEN Finish(c, "createCourse", 0, r.code, "bad_dates")
           ELSE Goto(c, "preSave")
        /\ UNCHANGED <<departments, courses, modules, students, users, enrollments, sessions, nextId>>

\* course.save(): first validation and the pre('save') hook ...
CreateCoursePreSave(c) ==
    LET r == requests[c]
        doc == CourseDoc(r.code, r.department, r.startDate, r.endDate)
    IN  /\ At(c, "createCourse", "preSave")
        /\ IF CourseValidate(doc) /\ CoursePreSave(departments, doc)
           THEN Goto(c, "save")
           ELSE Finish(c, "createCourse", 0, r.code, "error")
        /\ UNCHANGED <<departments, courses, modules, students, users, enrollments, sessions, nextId>>

\* ... then the insert.
CreateCourseSave(c) ==
    LET r == requests[c]
        doc == CourseDoc(r.code, r.department, r.startDate, r.endDate)
        id == nextId.course
    IN  /\ At(c, "createCourse", "save")
        /\ IF CourseIndexConflict(courses, id, doc)
           THEN /\ Finish(c, "createCourse", 0, r.code, "E11000")
                /\ UNCHANGED <<courses, nextId>>
           ELSE /\ courses' = Put(courses, id, doc)
                /\ nextId' = [nextId EXCEPT !.course = id + 1]
                /\ Finish(c, "createCourse", id, r.code, "created")
        /\ UNCHANGED <<departments, modules, students, users, enrollments, sessions>>

\* ---- updateCourse ----
StartUpdateCourse(c, id, code, department, startDate, endDate) ==
    /\ requests[c] = Idle
    /\ Arrive(c, [op |-> "updateCourse", pc |-> "findById", id |-> id, code |-> code,
               department |-> department,
               startDate |-> startDate, endDate |-> endDate, loaded |-> << >>])

UpdateCourseFindById(c) ==
    LET r == requests[c]
    IN  /\ At(c, "updateCourse", "findById")
        /\ IF r.id \notin DOMAIN courses
           THEN Finish(c, "updateCourse", r.id, NoString, "not_found")
           ELSE /\ requests' = [requests EXCEPT ![c].pc = "findOne",
                                                ![c].loaded = courses[r.id]]
                /\ UNCHANGED last
        /\ UNCHANGED <<departments, courses, modules, students, users, enrollments, sessions, nextId>>

UpdateCourseFindOne(c) ==
    LET r == requests[c]
    IN  /\ At(c, "updateCourse", "findOne")
        /\ IF courseExists(courses, {r.id}, toUpperCase(r.code))
           THEN Finish(c, "updateCourse", r.id, NoString, "duplicate")
           ELSE IF datesRejected(r.startDate, r.endDate)
           THEN Finish(c, "updateCourse", r.id, NoString, "bad_dates")
           ELSE Goto(c, "preSave")
        /\ UNCHANGED <<departments, courses, modules, students, users, enrollments, sessions, nextId>>

UpdateCoursePreSave(c) ==
    LET r == requests[c]
        doc == CourseDoc(r.code, r.department, r.startDate, r.endDate)
    IN  /\ At(c, "updateCourse", "preSave")
        /\ IF CourseValidate(doc) /\ CoursePreSave(departments, doc)
           THEN Goto(c, "save")
           ELSE Finish(c, "updateCourse", r.id, NoString, "error")
        /\ UNCHANGED <<departments, courses, modules, students, users, enrollments, sessions, nextId>>

UpdateCourseSave(c) ==
    LET r == requests[c]
        doc == CourseDoc(r.code, r.department, r.startDate, r.endDate)
    IN  /\ At(c, "updateCourse", "save")
        /\ IF r.id \notin DOMAIN courses
           THEN /\ \E status \in SaveOfMissing(r.loaded, doc) :
                     Finish(c, "updateCourse", r.id, NoString, status)
                /\ UNCHANGED courses
           ELSE LET merged == Merge(courses[r.id], r.loaded, doc)
                IN  IF CourseIndexConflict(courses, r.id, merged)
                    THEN /\ Finish(c, "updateCourse", r.id, NoString, "E11000")
                         /\ UNCHANGED courses
                    ELSE /\ courses' = Put(courses, r.id, merged)
                         /\ Finish(c, "updateCourse", r.id, NoString, "ok")
        /\ UNCHANGED <<departments, modules, students, users, enrollments, sessions, nextId>>

\* ---- createModule ----
StartCreateModule(c, code, course, department, prerequisites, weights) ==
    /\ requests[c] = Idle
    /\ Arrive(c, [op |-> "createModule", pc |-> "findOne", code |-> code, course |-> course,
               department |-> department, prerequisites |-> prerequisites,
               weights |-> weights])

CreateModuleFindOne(c) ==
    LET r == requests[c]
    IN  /\ At(c, "createModule", "findOne")
        /\ IF moduleExists(modules, {}, r.code)
           THEN Finish(c, "createModule", 0, r.code, "duplicate")
           ELSE IF weightsRejected(assessmentMethods(r.weights))
                THEN Finish(c, "createModule", 0, r.code, "bad_weights")
                ELSE Goto(c, "preSave")
        /\ UNCHANGED <<departments, courses, modules, students, users, enrollments, sessions, nextId>>

CreateModulePreSave(c) ==
    LET r == requests[c]
        doc == [code |-> toUpperCase(r.code), course |-> r.course,
                department |-> r.department, prerequisites |-> r.prerequisites,
                assessmentMethods |-> assessmentMethods(r.weights)]
    IN  /\ At(c, "createModule", "preSave")
        /\ IF ModuleValidate(doc) /\ ModulePreSave(departments, courses, doc)
           THEN Goto(c, "save")
           ELSE Finish(c, "createModule", 0, r.code, "error")
        /\ UNCHANGED <<departments, courses, modules, students, users, enrollments, sessions, nextId>>

CreateModuleSave(c) ==
    LET r == requests[c]
        doc == [code |-> toUpperCase(r.code), course |-> r.course,
                department |-> r.department, prerequisites |-> r.prerequisites,
                assessmentMethods |-> assessmentMethods(r.weights)]
        id == nextId.module
    IN  /\ At(c, "createModule", "save")
        /\ IF ModuleIndexConflict(modules, id, doc)
           THEN /\ Finish(c, "createModule", 0, r.code, "E11000")
                /\ UNCHANGED <<modules, nextId>>
           ELSE /\ modules' = Put(modules, id, doc)
                /\ nextId' = [nextId EXCEPT !.module = id + 1]
                /\ Finish(c, "createModule", id, r.code, "created")
        /\ UNCHANGED <<departments, courses, students, users, enrollments, sessions>>

\* ---- updateModule ----
StartUpdateModule(c, id, code, course, department, prerequisites, weights) ==
    /\ requests[c] = Idle
    /\ Arrive(c, [op |-> "updateModule", pc |-> "findById", id |-> id, code |-> code,
               course |-> course, department |-> department,
               prerequisites |-> prerequisites, weights |-> weights,
               loaded |-> << >>])

UpdateModuleFindById(c) ==
    LET r == requests[c]
    IN  /\ At(c, "updateModule", "findById")
        /\ IF r.id \notin DOMAIN modules
           THEN Finish(c, "updateModule", r.id, NoString, "not_found")
           ELSE /\ requests' = [requests EXCEPT ![c].pc = "findOne",
                                                ![c].loaded = modules[r.id]]
                /\ UNCHANGED last
        /\ UNCHANGED <<departments, courses, modules, students, users, enrollments, sessions, nextId>>

UpdateModuleFindOne(c) ==
    LET r == requests[c]
    IN  /\ At(c, "updateModule", "findOne")
        /\ IF moduleExists(modules, {r.id}, toUpperCase(r.code))
           THEN Finish(c, "updateModule", r.id, NoString, "duplicate")
           ELSE IF weightsRejected(assessmentMethods(r.weights))
                THEN Finish(c, "updateModule", r.id, NoString, "bad_weights")
                ELSE Goto(c, "preSave")
        /\ UNCHANGED <<departments, courses, modules, students, users, enrollments, sessions, nextId>>

UpdateModulePreSave(c) ==
    LET r == requests[c]
        doc == [code |-> toUpperCase(r.code), course |-> r.course,
                department |-> r.department, prerequisites |-> r.prerequisites,
                assessmentMethods |-> assessmentMethods(r.weights)]
    IN  /\ At(c, "updateModule", "preSave")
        /\ IF ModuleValidate(doc) /\ ModulePreSave(departments, courses, doc)
           THEN Goto(c, "save")
           ELSE Finish(c, "updateModule", r.id, NoString, "error")
        /\ UNCHANGED <<departments, courses, modules, students, users, enrollments, sessions, nextId>>

UpdateModuleSave(c) ==
    LET r == requests[c]
        doc == [code |-> toUpperCase(r.code), course |-> r.course,
                department |-> r.department, prerequisites |-> r.prerequisites,
                assessmentMethods |-> assessmentMethods(r.weights)]
    IN  /\ At(c, "updateModule", "save")
        /\ IF r.id \notin DOMAIN modules
           THEN /\ \E status \in SaveOfMissing(r.loaded, doc) :
                     Finish(c, "updateModule", r.id, NoString, status)
                /\ UNCHANGED modules
           ELSE LET merged == Merge(modules[r.id], r.loaded, doc)
                IN  IF ModuleIndexConflict(modules, r.id, merged)
                    THEN /\ Finish(c, "updateModule", r.id, NoString, "E11000")
                         /\ UNCHANGED modules
                    ELSE /\ modules' = Put(modules, r.id, merged)
                         /\ Finish(c, "updateModule", r.id, NoString, "ok")
        /\ UNCHANGED <<departments, courses, students, users, enrollments, sessions, nextId>>

\* ---- createStudent ----
StartCreateStudent(c, email, rollNumber, createLogin, password) ==
    /\ requests[c] = Idle
    /\ Arrive(c, [op |-> "createStudent", pc |-> "findOne", email |-> email,
               rollNumber |-> rollNumber, createLogin |-> createLogin,
               password |-> password, user |-> 0])

CreateStudentFindOne(c) ==
    LET r == requests[c]
    IN  /\ At(c, "createStudent", "findOne")
        /\ IF studentExists(students, {}, r.email, toUpperCase(r.rollNumber))
           THEN Finish(c, "createStudent", 0, r.rollNumber, "duplicate")
           ELSE IF r.createLogin THEN Goto(c, "userFindOne") ELSE Goto(c, "save")
        /\ UNCHANGED <<departments, courses, modules, students, users, enrollments, sessions, nextId>>

CreateStudentUserFindOne(c) ==
    LET r == requests[c]
    IN  /\ At(c, "createStudent", "userFindOne")
        /\ IF userExists(users, toLowerCase(r.email))
           THEN Finish(c, "createStudent", 0, r.rollNumber, "user_exists")
           ELSE IF Len(r.password) < 6
                THEN Finish(c, "createStudent", 0, r.rollNumber, "bad_password")
                ELSE Goto(c, "userSave")
        /\ UNCHANGED <<departments, courses, modules, students, users, enrollments, sessions, nextId>>

CreateStudentUserSave(c) ==
    LET r == requests[c]
        user == [email |-> toLowerCase(r.email), password |-> Hash(r.password),
                 role |-> "student", isActive |-> TRUE]
        id == nextId.user
    IN  /\ At(c, "createStudent", "userSave")
        /\ IF UserIndexConflict(users, id, user)
           THEN /\ Finish(c, "createStudent", 0, r.rollNumber, "E11000")
                /\ UNCHANGED <<users, nextId>>
           ELSE /\ users' = Put(users, id, user)
                /\ nextId' = [nextId EXCEPT !.user = id + 1]
                /\ requests' = [requests EXCEPT ![c].pc = "save", ![c].user = id]
                /\ UNCHANGED last
        /\ UNCHANGED <<departments, courses, modules, students, enrollments, sessions>>

CreateStudentSave(c) ==
    LET r == requests[c]
        doc == [email |-> toLowerCase(r.email), rollNumber |-> toUpperCase(r.rollNumber),
                user |-> r.user]
        id == nextId.student
    IN  /\ At(c, "createStudent", "save")
        /\ IF StudentIndexConflict(students, id, doc)
           THEN /\ Finish(c, "createStudent", 0, r.rollNumber, "E11000")
                /\ UNCHANGED <<students, nextId>>
           ELSE /\ students' = Put(students, id, doc)
                /\ nextId' = [nextId EXCEPT !.student = id + 1]
                /\ Finish(c, "createStudent", id, r.rollNumber, "created")
        /\ UNCHANGED <<departments, courses, modules, users, enrollments, sessions>>

\* ---- updateStudent ----
StartUpdateStudent(c, id, email, rollNumber, createLogin, password, resetPassword) ==
    /\ requests[c] = Idle
    /\ Arrive(c, [op |-> "updateStudent", pc |-> "findById", id |-> id, email |-> email,
               rollNumber |-> rollNumber, createLogin |-> createLogin,
               password |-> password, resetPassword |-> resetPassword,
               loaded |-> << >>, user |-> 0])

UpdateStudentFindById(c) ==
    LET r == requests[c]
    IN  /\ At(c, "updateStudent", "findById")
        /\ IF r.id \notin DOMAIN students
           THEN Finish(c, "updateStudent", r.id, NoString, "not_found")
           ELSE /\ requests' = [requests EXCEPT ![c].pc = "findOne",
                                                ![c].loaded = students[r.id],
                                                ![c].user = students[r.id].user]
                /\ UNCHANGED last
        /\ UNCHANGED <<departments, courses, modules, students, users, enrollments, sessions, nextId>>

UpdateStudentFindOne(c) ==
    LET r == requests[c]
    IN  /\ At(c, "updateStudent", "findOne")
        /\ IF studentExists(students, {r.id}, toLowerCase(r.email), toUpperCase(r.rollNumber))
           THEN Finish(c, "updateStudent", r.id, NoString, "duplicate")
           ELSE Goto(c, "save")
        /\ UNCHANGED <<departments, courses, modules, students, users, enrollments, sessions, nextId>>

\* What the handler does after an await of its tail (lines 142-178): create
\* the login, reset the password, or respond.  `user` is student.user of the
\* document in memory.
UpdateStudentResetOrRespond(c, user) ==
    LET r == requests[c]
    IN  IF r.resetPassword # NoString /\ user # 0
        THEN IF Len(r.resetPassword) < 6
             THEN Finish(c, "updateStudent", r.id, NoString, "bad_password")
             ELSE /\ requests' = [requests EXCEPT ![c].pc = "userFindById", ![c].user = user]
                  /\ UNCHANGED last
        ELSE Finish(c, "updateStudent", r.id, NoString, "ok")

UpdateStudentSave(c) ==
    LET r == requests[c]
        doc == [email |-> toLowerCase(r.email), rollNumber |-> toUpperCase(r.rollNumber),
                user |-> r.loaded.user]
    IN  /\ At(c, "updateStudent", "save")
        /\ IF r.id \notin DOMAIN students
           THEN /\ \E status \in SaveOfMissing(r.loaded, doc) :
                     IF status = "error"
                     THEN Finish(c, "updateStudent", r.id, NoString, "error")
                     ELSE IF r.createLogin /\ r.user = 0
                          THEN Goto(c, "userFindOne")
                          ELSE UpdateStudentResetOrRespond(c, r.user)
                /\ UNCHANGED students
           ELSE LET merged == Merge(students[r.id], r.loaded, doc)
                IN  IF StudentIndexConflict(students, r.id, merged)
                    THEN /\ Finish(c, "updateStudent", r.id, NoString, "E11000")
                         /\ UNCHANGED students
                    ELSE /\ students' = Put(students, r.id, merged)
                         /\ IF r.createLogin /\ r.user = 0
                            THEN Goto(c, "userFindOne")
                            ELSE UpdateStudentResetOrRespond(c, r.user)
        /\ UNCHANGED <<departments, courses, modules, users, enrollments, sessions, nextId>>

UpdateStudentUserFindOne(c) ==
    LET r == requests[c]
    IN  /\ At(c, "updateStudent", "userFindOne")
        /\ IF userExists(users, toLowerCase(r.email))
           THEN Finish(c, "updateStudent", r.id, NoString, "user_exists")
           ELSE IF Len(r.password) < 6
                THEN Finish(c, "updateStudent", r.id, NoString, "bad_password")
                ELSE Goto(c, "userSave")
        /\ UNCHANGED <<departments, courses, modules, students, users, enrollments, sessions, nextId>>

UpdateStudentUserSave(c) ==
    LET r == requests[c]
        user == [email |-> toLowerCase(r.email), password |-> Hash(r.password),
                 role |-> "student", isActive |-> TRUE]
        id == nextId.user
    IN  /\ At(c, "updateStudent", "userSave")
        /\ IF UserIndexConflict(users, id, user)
           THEN /\ Finish(c, "updateStudent", r.id, NoString, "E11000")
                /\ UNCHANGED <<users, nextId>>
           ELSE /\ users' = Put(users, id, user)
                /\ nextId' = [nextId EXCEPT !.user = id + 1]
                /\ requests' = [requests EXCEPT ![c].pc = "saveUserLink", ![c].user = id]
                /\ UNCHANGED last
        /\ UNCHANGED <<departments, courses, modules, students, enrollments, sessions>>

\* The second student.save() (line 159) writes the one changed path, user.
UpdateStudentSaveUserLink(c) ==
    LET r == requests[c]
    IN  /\ At(c, "updateStudent", "saveUserLink")
        /\ IF r.id \notin DOMAIN students
           THEN /\ Finish(c, "updateStudent", r.id, NoString, "error")
                /\ UNCHANGED students
           ELSE LET linked == [students[r.id] EXCEPT !.user = r.user]
                IN  IF StudentIndexConflict(students, r.id, linked)
                    THEN /\ Finish(c, "updateStudent", r.id, NoString, "E11000")
                         /\ UNCHANGED students
                    ELSE /\ students' = Put(students, r.id, linked)
                         /\ UpdateStudentResetOrRespond(c, r.user)
        /\ UNCHANGED <<departments, courses, modules, users, enrollments, sessions, nextId>>

UpdateStudentUserFindById(c) ==
    LET r == requests[c]
    IN  /\ At(c, "updateStudent", "userFindById")
        /\ IF r.user \in DOMAIN users
           THEN Goto(c, "userSavePassword")
           ELSE Finish(c, "updateStudent", r.id, NoString, "ok")
        /\ UNCHANGED <<departments, courses, modules, students, users, enrollments, sessions, nextId>>

UpdateStudentUserSavePassword(c) ==
    LET r == requests[c]
    IN  /\ At(c, "updateStudent", "userSavePassword")
        /\ IF r.user \in DOMAIN users
           THEN /\ users' = [users EXCEPT ![r.user].password = Hash(r.resetPassword)]
                /\ Finish(c, "updateStudent", r.id, NoString, "ok")
           ELSE /\ UNCHANGED users
                /\ Finish(c, "updateStudent", r.id, NoString, "error")
        /\ UNCHANGED <<departments, courses, modules, students, enrollments, sessions, nextId>>

(***************************************************************************)
(* RaceSpec: MaxRequests requests of two clients, to the create and update *)
(* handlers and to deleteDepartment, interleave at their awaits.  The      *)
(* store starts as createDepartment (once or twice), createCourse,         *)
(* createModule and createStudent leave it, run one after the other.       *)
(***************************************************************************)
SeedDepartments ==
    { (1 :> [name |-> <<"C", "o", "m", "p">>, code |-> <<"C", "S">>]),
      (1 :> [name |-> <<"C", "o", "m", "p">>, code |-> <<"C", "S">>])
          @@ (2 :> [name |-> <<"M", "a", "t", "h">>, code |-> <<"M", "A">>]) }

SeedStudents == (1 :> [email |-> <<"a">>, rollNumber |-> <<"C", "S">>, user |-> 0])

SeedUsers == << >>

RaceInit ==
    /\ departments \in SeedDepartments
    /\ courses = (1 :> CourseDoc(<<"C", "S">>, 1, PlainStartDate, PlainEndDate))
    /\ modules = (1 :> [code |-> <<"C", "S">>, course |-> 1, department |-> 1,
                        prerequisites |-> {},
                        assessmentMethods |-> [exam |-> 60000, coursework |-> 40000,
                                               practical |-> 0]])
    /\ students = SeedStudents
    /\ users = SeedUsers
    /\ enrollments = << >>
    /\ sessions = [c \in Clients |-> NoSession]
    /\ nextId = [department |-> Cardinality(DOMAIN departments) + 1, course |-> 2,
                 module |-> 2, student |-> 2, user |-> 1, enrollment |-> 1,
                 request |-> 1]
    /\ requests = [c \in Clients |-> Idle]
    /\ last = Response("createStudent", 1, <<"c", "s">>, 0, "created")

RaceNext ==
    \E c \in Clients :
        \/ \E name \in Names, code \in Codes : StartCreateDepartment(c, name, code)
        \/ CreateDepartmentFindOne(c)
        \/ CreateDepartmentSave(c)
        \/ \E id \in DepartmentIds, name \in Names, code \in Codes :
               StartUpdateDepartment(c, id, name, code)
        \/ UpdateDepartmentFindById(c)
        \/ UpdateDepartmentFindOne(c)
        \/ UpdateDepartmentSave(c)
        \/ \E id \in DepartmentIds : StartDeleteDepartment(c, id)
        \/ DeleteDepartmentFindById(c)
        \/ DeleteDepartmentCount(c)
        \/ DeleteDepartmentPreRemove(c)
        \/ DeleteDepartmentRemove(c)
        \/ \E code \in Codes, department \in DepartmentIds :
               StartCreateCourse(c, code, department, PlainStartDate, PlainEndDate)
        \/ CreateCourseFindOne(c)
        \/ CreateCoursePreSave(c)
        \/ CreateCourseSave(c)
        \/ \E id \in CourseIds, code \in Codes, department \in DepartmentIds :
               StartUpdateCourse(c, id, code, department, PlainStartDate, PlainEndDate)
        \/ UpdateCourseFindById(c)
        \/ UpdateCourseFindOne(c)
        \/ UpdateCoursePreSave(c)
        \/ UpdateCourseSave(c)
        \/ \E code \in Codes, course \in CourseIds, department \in DepartmentIds,
              prerequisites \in SUBSET ModuleIds, weights \in PlainWeights :
               StartCreateModule(c, code, course, department, prerequisites, weights)
        \/ CreateModuleFindOne(c)
        \/ CreateModulePreSave(c)
        \/ CreateModuleSave(c)
        \/ \E id \in ModuleIds, code \in Codes, course \in CourseIds,
              department \in DepartmentIds, prerequisites \in SUBSET ModuleIds,
              weights \in PlainWeights :
               StartUpdateModule(c, id, code, course, department, prerequisites, weights)
        \/ UpdateModuleFindById(c)
        \/ UpdateModuleFindOne(c)
        \/ UpdateModulePreSave(c)
        \/ UpdateModuleSave(c)
        \/ \E email \in Emails, rollNumber \in RollNumbers, createLogin \in BOOLEAN :
               \E password \in (IF createLogin THEN Passwords ELSE {NoString}) :
                   StartCreateStudent(c, email, rollNumber, createLogin, password)
        \/ CreateStudentFindOne(c)
        \/ CreateStudentUserFindOne(c)
        \/ CreateStudentUserSave(c)
        \/ CreateStudentSave(c)
        \/ \E id \in StudentIds, email \in Emails, rollNumber \in RollNumbers,
              createLogin \in BOOLEAN, resetPassword \in ResetPasswords :
               \E password \in (IF createLogin THEN Passwords ELSE {NoString}) :
                   StartUpdateStudent(c, id, email, rollNumber, createLogin,
                                      password, resetPassword)
        \/ UpdateStudentFindById(c)
        \/ UpdateStudentFindOne(c)
        \/ UpdateStudentSave(c)
        \/ UpdateStudentUserFindOne(c)
        \/ UpdateStudentUserSave(c)
        \/ UpdateStudentSaveUserLink(c)
        \/ UpdateStudentUserFindById(c)
        \/ UpdateStudentUserSavePassword(c)

RaceSpec == RaceInit /\ [][RaceNext]_vars

(***************************************************************************)
(* The gate middleware (protect, admin, requireRole).  Each gate is a      *)
(* function of the session and of whether the request accepts JSON; its    *)
(* outcome is "next" (the guarded handler runs), "401", "403", or a        *)
(* redirect to /login or to /.                                             *)
(***************************************************************************)
Roles == {"admin", "student", "teacher"}

\* req.session && req.session.user
sessionUser(s) == s.session /\ s.id # 0

\* The gate lets every session with a user through.
protect_IgnoresActive(s, acceptsJson) ==
    IF sessionUser(s)
    THEN "next"
    ELSE IF acceptsJson THEN "401" ELSE "redirect_login"

protect(s, acceptsJson) ==
    IF sessionUser(s) /\ s.isActive # "false"
    THEN "next"
    ELSE IF acceptsJson THEN "401" ELSE "redirect_login"

admin(s, acceptsJson) ==
    IF sessionUser(s) /\ s.role = "admin" /\ s.isActive # "false"
    THEN "next"
    ELSE IF acceptsJson THEN "403" ELSE "redirect_home"

requireRole(role, s, acceptsJson) ==
    IF sessionUser(s) /\ s.role = role /\ s.isActive # "false"
    THEN "next"
    ELSE IF acceptsJson THEN "403" ELSE "redirect_login"

\* The outcome of a gate for the request of client c: the gate, the client,
\* the user of the session, the role the gate asks for ("none" for protect).
GateReply(gate, c, role, outcome) ==
    /\ last' = [op |-> gate, id |-> c, code |-> NoString, user |-> sessions[c].id,
                status |-> outcome, role |-> role]
    /\ UNCHANGED <<departments, courses, modules, students, users, enrollments,
                   sessions, nextId, requests>>

Protect(c, acceptsJson) ==
    GateReply("protect", c, "none", protect(sessions[c], acceptsJson))

Admin(c, acceptsJson) ==
    GateReply("admin", c, "admin", admin(sessions[c], acceptsJson))

RequireRole(c, role, acceptsJson) ==
    GateReply("requireRole", c, role, requireRole(role, sessions[c], acceptsJson))

\* GateSpec: the gates applied to every form of session.
SessionForms ==
    {NoSession, EmptySession} \cup
    [session : {TRUE}, id : {1}, role : Roles, isActive : {"true", "false", "absent"}]

GateInit ==
    /\ departments = << >>
    /\ courses = << >>
    /\ modules = << >>
    /\ students = << >>
    /\ users = << >>
    /\ enrollments = << >>
    /\ sessions \in [Clients -> SessionForms]
    /\ nextId = [department |-> 1, course |-> 1, module |-> 1,
                 student |-> 1, user |-> 1, enrollment |-> 1, request |-> 1]
    /\ requests = [c \in Clients |-> Idle]
    /\ last = Response("none", 0, NoString, 0, "none")

GateNext ==
    \/ \E c \in Clients, acceptsJson \in BOOLEAN : Protect(c, acceptsJson)
    \/ \E c \in Clients, acceptsJson \in BOOLEAN : Admin(c, acceptsJson)
    \/ \E c \in Clients, role \in Roles, acceptsJson \in BOOLEAN :
            RequireRole(c, role, acceptsJson)

GateSpec == GateInit /\ [][GateNext]_vars

(***************************************************************************)
(* The auth controller (login, logout).  login is split at its awaits, so  *)
(* that a logout or a gate of the same session can run while a login is in *)
(* flight.  The outcomes are "ok" and "invalid" (401 'Invalid credentials' *)
(* or the redirect to /login with the flash message).                      *)
(***************************************************************************)
\* user.matchPassword(password): the stored hash is the hash of the password.
matchPassword(user, password) == user.password = Hash(password)

\* The object login puts into req.session.user.
sessionOf(id, user) ==
    [session |-> TRUE, id |-> id, role |-> user.role,
     isActive |-> IF user.isActive THEN "true" ELSE "false"]

AuthReply(c, op, status) ==
    /\ last' = Response(op, c, NoString, sessions'[c].id, status)
    /\ requests' = [requests EXCEPT ![c] = Idle]

StartLogin(c, email, password) ==
    /\ requests[c] = Idle
    /\ requests' = [requests EXCEPT ![c] =
          [op |-> "login", pc |-> "findOne", email |-> email, password |-> password,
           user |-> 0]]
    /\ UNCHANGED <<departments, courses, modules, students, users, enrollments,
                   sessions, nextId, last>>

\* The query finds an inactive User too.
findActiveUsers_AnyUser(us, email) ==
    {k \in DOMAIN us : us[k].email = toLowerCase(email)}

\* User.findOne({ email: email.toLowerCase(), isActive: true })
findActiveUsers(us, email) ==
    {k \in DOMAIN us : us[k].email = toLowerCase(email) /\ us[k].isActive}

LoginFindOne(c) ==
    LET r == requests[c]
        found == findActiveUsers(users, r.email)
    IN  /\ r.op = "login"
        /\ r.pc = "findOne"
        /\ IF found = {}
           THEN /\ UNCHANGED sessions
                /\ AuthReply(c, "login", "invalid")
           ELSE /\ \E k \in found :
                     requests' = [requests EXCEPT ![c].pc = "matchPassword",
                                                  ![c].user = k]
                /\ UNCHANGED <<sessions, last>>
        /\ UNCHANGED <<departments, courses, modules, students, users, enrollments, nextId>>

\* await user.matchPassword(password), then req.session.user = {...}
LoginMatchPassword(c) ==
    LET r == requests[c]
    IN  /\ r.op = "login"
        /\ r.pc = "matchPassword"
        /\ IF matchPassword(users[r.user], r.password)
           THEN /\ sessions' = [sessions EXCEPT ![c] = sessionOf(r.user, users[r.user])]
                /\ AuthReply(c, "login", "ok")
           ELSE /\ UNCHANGED sessions
                /\ AuthReply(c, "login", "invalid")
        /\ UNCHANGED <<departments, courses, modules, students, users, enrollments, nextId>>

\* req.session.destroy(...)
Logout(c) ==
    /\ sessions' = [sessions EXCEPT ![c] = NoSession]
    /\ last' = Response("logout", c, NoString, 0, "ok")
    /\ UNCHANGED <<departments, courses, modules, students, users, enrollments,
                   nextId, requests>>

\* AuthSpec: two clients log in and out and pass through protect.  It starts
\* from a store with an active admin and a student whose account is inactive.
SeedAccounts ==
    (1 :> [email |-> <<"a">>, password |-> Hash(<<"p", "a", "s", "s", "w", "d">>),
           role |-> "admin", isActive |-> TRUE]) @@
    (2 :> [email |-> <<"m">>, password |-> Hash(<<"p", "a", "s", "s", "w", "d">>),
           role |-> "student", isActive |-> FALSE])

AuthInit ==
    /\ departments = << >>
    /\ courses = << >>
    /\ modules = << >>
    /\ students = << >>
    /\ users = SeedAccounts
    /\ enrollments = << >>
    /\ sessions = [c \in Clients |-> EmptySession]
    /\ nextId = [department |-> 1, course |-> 1, module |-> 1,
                 student |-> 1, user |-> 3, enrollment |-> 1, request |-> 1]
    /\ requests = [c \in Clients |-> Idle]
    /\ last = Response("none", 0, NoString, 0, "none")

AuthNext ==
    \/ \E c \in Clients, email \in Emails, password \in Passwords :
            StartLogin(c, email, password)
    \/ \E c \in Clients : LoginFindOne(c)
    \/ \E c \in Clients : LoginMatchPassword(c)
    \/ \E c \in Clients : Logout(c)
    \/ \E c \in Clients, acceptsJson \in BOOLEAN : Protect(c, acceptsJson)

AuthSpec == AuthInit /\ [][AuthNext]_vars

(***************************************************************************)
(* Properties of the handlers run one at a time (Spec).  A step is told by *)
(* the response it sends: last' names the operation, the id it addressed   *)
(* or created and the code a create request carried.                       *)
(***************************************************************************)
catalog == <<departments, courses, modules>>

C2_CreateCodeCaseInsensitive ==
    [][/\ (/\ last'.op = "createCourse"
           /\ \E k \in DOMAIN courses : courses[k].code = toUpperCase(last'.code))
          => (last'.status = "duplicate" /\ courses' = courses)
       /\ (/\ last'.op = "createModule"
           /\ \E k \in DOMAIN modules : modules[k].code = toUpperCase(last'.code))
          => (last'.status = "duplicate" /\ modules' = modules)]_vars

\* A createModule that carried a lower-case code was refused as a duplicate of
\* a stored upper-case code.
C2_Witness ==
    /\ last.op = "createModule"
    /\ last.status = "duplicate"
    /\ last.code # toUpperCase(last.code)
    /\ \E k \in DOMAIN modules : modules[k].code = toUpperCase(last.code)

\* C3: createDepartment with the name or the code of a stored Department ends
\* with the duplicate-key outcome and leaves the Departments as they were.
C3_CreateDepartmentDuplicate ==
    [][last'.op = "createDepartment" =>
        \A name \in Names :
            (/\ CreateDepartment(name, last'.code)
             /\ \E k \in DOMAIN departments :
                   departments[k].name = name \/ departments[k].code = last'.code)
            => (last'.status = "duplicate" /\ departments' = departments)]_vars

\* A createDepartment was refused although no stored Department has its code:
\* the name alone collided.
C3_Witness ==
    /\ last.op = "createDepartment"
    /\ last.status = "duplicate"
    /\ departments # << >>
    /\ \A k \in DOMAIN departments : departments[k].code # toUpperCase(last.code)

\* C6: createModule and updateModule succeed only when the course and the
\* department of the Module they store both resolve and the course belongs to
\* that department; in every other case they fail and store nothing.
C6_ModuleSaveNeedsMatchingReferences ==
    [][last'.op \in {"createModule", "updateModule"} =>
        IF last'.status \in {"created", "ok"}
        THEN LET m == modules'[last'.id]
             IN  /\ m.course \in DOMAIN courses
                 /\ m.department \in DOMAIN departments
                 /\ courses[m.course].department = m.department
        ELSE modules' = modules]_vars

\* A createModule failed while its course and both departments were stored:
\* the course belongs to the other department.
C6_Witness ==
    /\ last.op = "createModule"
    /\ last.status = "error"
    /\ DOMAIN courses = CourseIds
    /\ DOMAIN departments = DepartmentIds

\* C7: every stored Module's department is the department of its Course.
C7_ModuleDepartmentIsCourseDepartment ==
    \A m \in DOMAIN modules :
        /\ modules[m].course \in DOMAIN courses
        /\ courses[modules[m].course].department = modules[m].department

\* C8: deleteCourse on a stored Course is refused, changing nothing, exactly
\* when a stored Module has that course; otherwise the Course is removed.
C8_DeleteCourseGuard ==
    [][(last'.op = "deleteCourse" /\ last'.id \in DOMAIN courses) =>
            IF \E m \in DOMAIN modules : modules[m].course = last'.id
            THEN /\ last'.status = "has_dependents"
                 /\ catalog' = catalog
            ELSE /\ last'.status = "ok"
                 /\ last'.id \notin DOMAIN courses'
                 /\ departments' = departments
                 /\ modules' = modules]_vars

\* A deleteCourse was refused for a Course that a Module refers to.
C8_Witness ==
    /\ last.op = "deleteCourse"
    /\ last.status = "has_dependents"
    /\ last.id \in DOMAIN courses
    /\ \E m \in DOMAIN modules : modules[m].course = last.id

\* C9: deleteModule on a stored Module that another stored Module lists as a
\* prerequisite is refused and leaves every Module as it was.
C9_DeleteModuleGuard ==
    [][(/\ last'.op = "deleteModule"
        /\ last'.id \in DOMAIN modules
        /\ \E m \in DOMAIN modules \ {last'.id} : last'.id \in modules[m].prerequisites)
        => (last'.status = "has_dependents" /\ modules' = modules)]_vars

\* A deleteModule was refused for a Module that only another Module lists.
C9_Witness ==
    /\ last.op = "deleteModule"
    /\ last.status = "has_dependents"
    /\ last.id \in DOMAIN modules
    /\ last.id \notin modules[last.id].prerequisites
    /\ \E m \in DOMAIN modules \ {last.id} : last.id \in modules[m].prerequisites

(***************************************************************************)
(* Properties of the interleaved create and update requests (RaceSpec).    *)
(***************************************************************************)
\* No two documents of the collection agree on the field.
UniqueOn(coll, field) ==
    \A i, j \in DOMAIN coll : i # j => coll[i][field] # coll[j][field]

\* C4: in every reachable state, also when the pre-check and the save of two
\* concurrent create or update requests interleave, no two stored Departments
\* share a name or a code, no two stored Courses share a code, no two stored
\* Modules share a code and no two stored Students share an email or a
\* rollNumber; so of two concurrent creates with one key at most one record
\* is stored.
C4_NaturalKeysUnique ==
    /\ UniqueOn(departments, "name")
    /\ UniqueOn(departments, "code")
    /\ UniqueOn(courses, "code")
    /\ UniqueOn(modules, "code")
    /\ UniqueOn(students, "email")
    /\ UniqueOn(students, "rollNumber")

\* Two createCourse requests with one code both passed the pre-check; the
\* save of the second was rejected by the index and one Course holds the code.
C4_Witness ==
    /\ last.op = "createCourse"
    /\ last.status = "E11000"
    /\ Cardinality({k \in DOMAIN courses : courses[k].code = toUpperCase(last.code)}) = 1
    /\ \E c \in Clients : requests[c] = Idle

\* The request of client c has passed its pre-check query and its hook and is
\* at its save, and the unique index of the collection rejects the document.
SaveRejectedByIndex(c) ==
    LET r == requests[c]
    IN  /\ r.op # "idle"
        /\ r.pc = "save"
        /\ \/ /\ r.op = "createDepartment"
              /\ DepartmentIndexConflict(departments, nextId.department,
                     [name |-> r.name, code |-> toUpperCase(r.code)])
           \/ /\ r.op = "updateDepartment"
              /\ r.id \in DOMAIN departments
              /\ DepartmentIndexConflict(departments, r.id,
                     Merge(departments[r.id], r.loaded,
                           [name |-> r.name, code |-> toUpperCase(r.code)]))
           \/ /\ r.op = "createCourse"
              /\ CourseIndexConflict(courses, nextId.course,
                     CourseDoc(r.code, r.department, r.startDate, r.endDate))
           \/ /\ r.op = "updateCourse"
              /\ r.id \in DOMAIN courses
              /\ CourseIndexConflict(courses, r.id,
                     Merge(courses[r.id], r.loaded,
                           CourseDoc(r.code, r.department, r.startDate, r.endDate)))
           \/ /\ r.op = "createModule"
              /\ ModuleIndexConflict(modules, nextId.module,
                     [code |-> toUpperCase(r.code), course |-> r.course,
                      department |-> r.department, prerequisites |-> r.prerequisites,
                      assessmentMethods |-> assessmentMethods(r.weights)])
           \/ /\ r.op = "updateModule"
              /\ r.id \in DOMAIN modules
              /\ ModuleIndexConflict(modules, r.id,
                     Merge(modules[r.id], r.loaded,
                           [code |-> toUpperCase(r.code), course |-> r.course,
                            department |-> r.department,
                            prerequisites |-> r.prerequisites,
                            assessmentMethods |-> assessmentMethods(r.weights)]))

\* C5: when a create or update has passed its pre-check query and its save is
\* rejected by the unique index, the request ends with the duplicate-key
\* outcome of a pre-check rejection (the 400 '... already exists' response),
\* not with a generic failure.
C5_IndexRejectionAnswersDuplicate ==
    [][\A c \in Clients :
          (SaveRejectedByIndex(c) /\ requests'[c] = Idle) => last'.status = "duplicate"]_vars

(***************************************************************************)
(* Properties of the portal requests (PortalSpec).                         *)
(***************************************************************************)
EnrollmentsOf(user, course) ==
    {k \in DOMAIN enrollments :
        enrollments[k].user = user /\ enrollments[k].course = course}

\* The step ends a request of the given operation; last' is its response.
Answers(op) == \E c \in Clients : requests[c].op = op /\ requests'[c] = Idle

\* C10, as stated: an enrollInCourse answered while the pair already has an
\* Enrollment row (no drop since the first call) reports 'Already enrolled'
\* and leaves the Enrollment rows as they were.
C10_SecondEnrollAlwaysNoOp ==
    [][(Answers("enrollInCourse") /\ EnrollmentsOf(last'.user, last'.id) # {}) =>
            /\ last'.status = "already_enrolled"
            /\ enrollments' = enrollments]_vars

\* C10, amended: the same, for a Course that is still stored; the rows are
\* left alone in every case.
C10_SecondEnrollNoOpWhileCourseStored ==
    [][(Answers("enrollInCourse") /\ EnrollmentsOf(last'.user, last'.id) # {}) =>
            /\ last'.id \in DOMAIN courses => last'.status = "already_enrolled"
            /\ enrollments' = enrollments]_vars

\* A second enrollInCourse of a pair was answered 'Already enrolled'.
C10_Witness ==
    /\ last.op = "enrollInCourse"
    /\ last.status = "already_enrolled"
    /\ last.id \in DOMAIN courses
    /\ Cardinality(EnrollmentsOf(last.user, last.id)) = 1

\* C11: in every reachable state, under any sequence and any interleaving of
\* enrollInCourse and dropFromCourse requests (two concurrent enrolls of one
\* user in one course included), each (user, course) pair has at most one
\* Enrollment row.
C11_OneEnrollmentPerPair ==
    \A u \in SessionUsers, k \in CourseIds : Cardinality(EnrollmentsOf(u, k)) <= 1

\* Two enrolls of one pair were both past Course.findById; the first has
\* inserted its row and the second is at Enrollment.create.
C11_Witness ==
    \E c \in Clients :
        /\ requests[c].op = "enrollInCourse"
        /\ requests[c].pc = "create"
        /\ last.op = "enrollInCourse"
        /\ last.status = "enrolled"
        /\ last.user = requests[c].user
        /\ last.id = requests[c].course
        /\ Cardinality(EnrollmentsOf(requests[c].user, requests[c].course)) = 1

\* The step is the Enrollment.findOne of the dropFromCourse of client c.
DropLooksUp(c) ==
    /\ requests[c].op = "dropFromCourse"
    /\ requests[c].pc = "findEnrollment"
    /\ requests'[c] # requests[c]

\* C12: a dropFromCourse that finds no Enrollment row of its (user, course)
\* pair (never enrolled, or already dropped) answers with the not-found
\* outcome and leaves every Enrollment row unchanged.
C12_DropWithoutRowNotFound ==
    [][\A c \in Clients :
          (DropLooksUp(c) /\ EnrollmentsOf(requests[c].user, requests[c].course) = {}) =>
              /\ requests'[c] = Idle
              /\ last' = Response("dropFromCourse", requests[c].course, NoString,
                                  requests[c].user, "not_found")
              /\ enrollments' = enrollments]_vars

\* A drop was answered not-found after the pair's row had been dropped,
\* while the row of another pair stays stored.
C12_Witness ==
    /\ last.op = "dropFromCourse"
    /\ last.status = "not_found"
    /\ EnrollmentsOf(last.user, last.id) = {}
    /\ nextId.enrollment > 2
    /\ enrollments # << >>

\* The rows of the pairs other than (user, course).
RowsOfOtherPairs(es, user, course) ==
    [k \in {i \in DOMAIN es : es[i].user # user \/ es[i].course # course} |-> es[k]]

\* C13, as stated: a successful dropFromCourse(user, course) removes the
\* row of the pair outright and changes nothing else: afterwards no row of
\* (user, course) exists and every row of another pair is unchanged; and an
\* enrollInCourse that follows (no row of the pair, the Course stored)
\* creates a new row with status enrolled.
C13_DropRemovesRowOutright ==
    [][/\ (Answers("dropFromCourse") /\ last'.status = "dropped") =>
              /\ \A k \in DOMAIN enrollments' :
                     enrollments'[k].user # last'.user \/ enrollments'[k].course # last'.id
              /\ RowsOfOtherPairs(enrollments', last'.user, last'.id)
                     = RowsOfOtherPairs(enrollments, last'.user, last'.id)
              /\ UNCHANGED <<departments, courses, modules, students, users>>
       /\ \A c \in Clients :
              (/\ requests[c].op = "enrollInCourse"
               /\ requests[c].pc = "create"
               /\ requests'[c] = Idle
               /\ EnrollmentsOf(requests[c].user, requests[c].course) = {}) =>
                  /\ last'.status = "enrolled"
                  /\ \E k \in DOMAIN enrollments' \ DOMAIN enrollments :
                         enrollments'[k] = [user |-> requests[c].user,
                                            course |-> requests[c].course,
                                            status |-> "enrolled"]]_vars

\* C14: the status dropped is unreachable: in every state reachable through
\* enrollInCourse and dropFromCourse every stored Enrollment row has status
\* enrolled.
C14_NoDroppedRow ==
    \A k \in DOMAIN enrollments : enrollments[k].status = "enrolled"

\* A drop has succeeded and a row enrolled before it is still stored.
C14_Witness ==
    /\ last.op = "dropFromCourse"
    /\ last.status = "dropped"
    /\ \E k \in DOMAIN enrollments : k < nextId.enrollment - 1

(***************************************************************************)
(* Properties of the module handlers with the forms of the weights         *)
(* (ModuleSpec).  last' carries the weights of the form: last'.weights.    *)
(***************************************************************************)
WritesModule == last'.op \in {"createModule", "updateModule"}

Accepted == last'.status \in {"created", "ok"}

SumOfWeights(am) == am.exam + am.coursework + am.practical

\* A weight as the claim counts it: the number the value is, 0 for a missing
\* or non-numeric value.
CountedWeight(raw) == IF raw.digits /\ ~raw.suffix THEN raw.value ELSE 0

\* A weight as parseFloat reads it: the leading number of the value, 0 when
\* the value has none.
LeadingNumber(raw) == IF raw.digits THEN raw.value ELSE 0

\* C15, as stated: createModule and updateModule are rejected, with no
\* Module stored or changed, whenever exam + coursework + practical (a
\* missing or non-numeric weight counting as 0) differs from 100 by more than
\* 0.01; hence every stored Module has weights summing to 100.
C15_WeightsSumTo100 ==
    [][WritesModule =>
          /\ Abs(SumOfWeights([f \in {"exam", "coursework", "practical"} |->
                     CountedWeight(last'.weights[f])]) - Hundred) > Tolerance
                 => (~Accepted /\ modules' = modules)
          /\ \A k \in DOMAIN modules' :
                 SumOfWeights(modules'[k].assessmentMethods) = Hundred]_vars

\* C15, amended: the same with each weight read as parseFloat reads it (the
\* leading number of the value, 0 when it has none), and every stored Module
\* has weights summing to 100 within 0.01.
C15_WeightsSumTo100WithinTolerance ==
    [][WritesModule =>
          /\ Abs(SumOfWeights([f \in {"exam", "coursework", "practical"} |->
                     LeadingNumber(last'.weights[f])]) - Hundred) > Tolerance
                 => (~Accepted /\ modules' = modules)
          /\ \A k \in DOMAIN modules' :
                 Abs(SumOfWeights(modules'[k].assessmentMethods) - Hundred) <= Tolerance]_vars

\* The update of a stored Module was rejected for its weights.
C15_Witness ==
    /\ last.op = "updateModule"
    /\ last.status = "bad_weights"
    /\ last.id \in DOMAIN modules
    /\ Abs(SumOfWeights([f \in {"exam", "coursework", "practical"} |->
               LeadingNumber(last.weights[f])]) - Hundred) > Tolerance

(***************************************************************************)
(* Properties of getStructuredModules (CatalogSpec).  last.found holds the *)
(* query results the structure last.structure was built from.              *)
(***************************************************************************)
Structured == last.op = "getStructuredModules"

IdsOf(docs) == {docs[i].id : i \in 1..Len(docs)}

DocOf(docs, id) == docs[CHOOSE i \in 1..Len(docs) : docs[i].id = id]

\* The first place of the id in a sequence of documents.
PlaceOf(docs, id) == CHOOSE i \in 1..Len(docs) : docs[i].id = id

\* The department the module resolves to: its own when the departments have
\* it, else the department of its Course; NoId when neither is there.
ResolvedDepartment(m, found) ==
    IF m.department \in IdsOf(found.departments) THEN m.department
    ELSE IF m.course \in IdsOf(found.courses)
         THEN DocOf(found.courses, m.course).department
         ELSE NoId

\* The departments have the resolved department of m and the courses have
\* the Course of m, owned by that department.
Listed(m, found) ==
    /\ ResolvedDepartment(m, found) \in IdsOf(found.departments)
    /\ m.course \in IdsOf(found.courses)
    /\ DocOf(found.courses, m.course).department = ResolvedDepartment(m, found)

\* The places <<department, course, semester, index>> of a module id in the
\* structure.
PlacesOf(structure, mid) ==
    UNION { UNION { UNION {
        { <<structure[d].key, structure[d].value.courses[c].key, sem, i>> :
            i \in { j \in 1..Len(structure[d].value.courses[c].value.semesters[sem]) :
                      structure[d].value.courses[c].value.semesters[sem][j] = mid } }
        : sem \in DOMAIN structure[d].value.courses[c].value.semesters }
        : c \in 1..Len(structure[d].value.courses) }
        : d \in 1..Len(structure) }

\* C16: a Module m is in the output if and only if the departments have a
\* Department with m's resolved department id (its own, else its Course's)
\* and the courses have m's Course, owned by that Department; m then appears
\* exactly once, under that Department, that Course and its semester; a
\* Course whose Department is absent is omitted, and so is every other
\* Module.
C16_CatalogOrphanSkip ==
    Structured =>
        LET found == last.found
            structure == last.structure
        IN  /\ \A n \in 1..Len(found.modules) :
                   LET m == found.modules[n]
                       places == PlacesOf(structure, m.id)
                   IN  IF Listed(m, found)
                       THEN /\ Cardinality(places) = 1
                            /\ \A pl \in places :
                                   /\ pl[1] = ResolvedDepartment(m, found)
                                   /\ pl[2] = m.course
                                   /\ pl[3] = m.semester
                       ELSE places = {}
            /\ \A mid \in CatalogModuleIds \ IdsOf(found.modules) :
                   PlacesOf(structure, mid) = {}
            /\ \A d \in 1..Len(structure) :
                   /\ structure[d].key \in IdsOf(found.departments)
                   /\ \A c \in 1..Len(structure[d].value.courses) :
                          LET key == structure[d].value.courses[c].key
                          IN  /\ key \in IdsOf(found.courses)
                              /\ DocOf(found.courses, key).department = structure[d].key
            /\ \A n \in 1..Len(found.courses) :
                   found.courses[n].department \notin IdsOf(found.departments) =>
                       \A d \in 1..Len(structure) :
                           \A c \in 1..Len(structure[d].value.courses) :
                               structure[d].value.courses[c].key # found.courses[n].id

\* One Module is listed although its own department is not stored (it is
\* under its Course's department), another is skipped, and a Course is
\* omitted for its absent Department.
C16_Witness ==
    /\ Structured
    /\ \E n \in 1..Len(last.found.modules) :
           /\ last.found.modules[n].department \notin IdsOf(last.found.departments)
           /\ PlacesOf(last.structure, last.found.modules[n].id) # {}
    /\ \E n \in 1..Len(last.found.modules) :
           PlacesOf(last.structure, last.found.modules[n].id) = {}
    /\ \E n \in 1..Len(last.found.courses) :
           last.found.courses[n].department \notin IdsOf(last.found.departments)

\* C17: the Modules of each (Department, Course, semester) bucket appear in
\* the relative order of the input Module sequence, and the Departments and
\* the Courses of a Department in the order of their input sequences.
C17_CatalogOrder ==
    Structured =>
        LET found == last.found
            structure == last.structure
        IN  /\ \A d, e \in 1..Len(structure) :
                   d < e => PlaceOf(found.departments, structure[d].key)
                                < PlaceOf(found.departments, structure[e].key)
            /\ \A d \in 1..Len(structure) :
                   LET cs == structure[d].value.courses
                   IN  /\ \A c, e \in 1..Len(cs) :
                              c < e => PlaceOf(found.courses, cs[c].key)
                                           < PlaceOf(found.courses, cs[e].key)
                       /\ \A c \in 1..Len(cs) :
                              \A sem \in DOMAIN cs[c].value.semesters :
                                  LET bucket == cs[c].value.semesters[sem]
                                  IN  \A i, j \in 1..Len(bucket) :
                                          i < j => PlaceOf(found.modules, bucket[i])
                                                       < PlaceOf(found.modules, bucket[j])

\* Two Departments listed against the order of their ids, one with two
\* Courses listed against the order of their ids and a bucket of two
\* Modules listed against the order of their ids.
C17_Witness ==
    /\ Structured
    /\ Len(last.structure) = 2
    /\ last.structure[1].key > last.structure[2].key
    /\ \E d \in 1..Len(last.structure) :
           LET cs == last.structure[d].value.courses
           IN  /\ Len(cs) = 2
               /\ cs[1].key > cs[2].key
               /\ \E c \in 1..Len(cs) : \E sem \in DOMAIN cs[c].value.semesters :
                      /\ Len(cs[c].value.semesters[sem]) = 2
                      /\ cs[c].value.semesters[sem][1] > cs[c].value.semesters[sem][2]

(***************************************************************************)
(* Properties of the update handlers and of deleteDepartment, interleaved  *)
(* (RaceSpec).                                                             *)
(***************************************************************************)
\* The step ends the request of client c with the given outcome.
AnswersWith(c, op, outcomes) ==
    /\ requests[c].op = op
    /\ requests'[c] = Idle
    /\ last'.op = op
    /\ last'.status \in outcomes

\* C18, as stated, for the request that arrives first (the store before it
\* is the store RaceSpec starts from): when updateStudent answers with a
\* rejection (duplicate email or roll number, a User holding the email,
\* a password or reset password shorter than 6), the stored Students and
\* the stored Users are as before the request.
C18_RejectedUpdateNotApplied ==
    [][\A c \in Clients :
          (/\ AnswersWith(c, "updateStudent", {"duplicate", "user_exists", "bad_password"})
           /\ nextId.request = 2) =>
              /\ students' = SeedStudents
              /\ users' = SeedUsers]_vars

\* The step is the uniqueness query of the update request of client c.
UpdateChecks(c, op) ==
    /\ requests[c].op = op
    /\ requests[c].pc = "findOne"
    /\ requests'[c] # requests[c]

\* C19: the uniqueness check of updateCourse, updateModule and
\* updateDepartment rejects the update as a duplicate exactly when a stored
\* record other than the one updated holds the upper-cased code (for a
\* Department: or the name); an update that keeps the record's own code (and
\* name) is not rejected for it, and a rejection leaves the records unchanged.
C19_UpdateCheckExcludesSelf ==
    [][\A c \in Clients :
          LET r == requests[c]
          IN  /\ UpdateChecks(c, "updateCourse") =>
                     /\ AnswersWith(c, "updateCourse", {"duplicate"}) <=>
                            \E k \in DOMAIN courses \ {r.id} :
                                courses[k].code = toUpperCase(r.code)
                     /\ courses' = courses
              /\ UpdateChecks(c, "updateModule") =>
                     /\ AnswersWith(c, "updateModule", {"duplicate"}) <=>
                            \E k \in DOMAIN modules \ {r.id} :
                                modules[k].code = toUpperCase(r.code)
                     /\ modules' = modules
              /\ UpdateChecks(c, "updateDepartment") =>
                     /\ AnswersWith(c, "updateDepartment", {"duplicate"}) <=>
                            \E k \in DOMAIN departments \ {r.id} :
                                \/ departments[k].code = toUpperCase(r.code)
                                \/ departments[k].name = r.name
                     /\ departments' = departments]_vars

\* An updateCourse that keeps the Course's own code is past the check, and
\* an updateDepartment was rejected for the name or code of another
\* Department.
C19_Witness ==
    /\ \E c \in Clients :
           /\ requests[c].op = "updateCourse"
           /\ requests[c].pc = "preSave"
           /\ requests[c].id \in DOMAIN courses
           /\ courses[requests[c].id].code = toUpperCase(requests[c].code)
    /\ last.op = "updateDepartment"
    /\ last.status = "duplicate"
    /\ last.id \in DOMAIN departments

\* C20: in every reachable state every stored Course references a stored
\* Department, also when the existence check of a Course save interleaves
\* with the count-then-remove steps of a concurrent deleteDepartment.
C20_CourseDepartmentStored ==
    \A k \in DOMAIN courses : courses[k].department \in DOMAIN departments

(***************************************************************************)
(* Properties of the dates of a Course (CourseSpec).                       *)
(***************************************************************************)
\* C21, as stated: every stored Course has an endDate, strictly after its
\* startDate (a createCourse or updateCourse whose endDate is absent, equal
\* to or before startDate is rejected and stores nothing).
C21_EndDateAfterStartDate ==
    \A k \in DOMAIN courses :
        /\ courses[k].startDate.valid
        /\ courses[k].endDate.valid
        /\ courses[k].endDate.time > courses[k].startDate.time

(***************************************************************************)
(* Properties of the prerequisites lists (Spec).                           *)
(***************************************************************************)
\* C22, as stated: deleteModule on a stored Module that no other stored
\* Module lists as a prerequisite (also when it lists itself) removes it,
\* and after the removal no stored Module's prerequisites list contains it.
C22_DeleteModuleUnlessOtherLists ==
    [][(/\ last'.op = "deleteModule"
        /\ last'.id \in DOMAIN modules
        /\ \A m \in DOMAIN modules \ {last'.id} : last'.id \notin modules[m].prerequisites)
        => (/\ last'.status = "ok"
            /\ last'.id \notin DOMAIN modules'
            /\ \A m \in DOMAIN modules' : last'.id \notin modules'[m].prerequisites)]_vars

\* C24, as stated: every id in a stored Module's prerequisites list refers to
\* a stored Module other than the Module itself.
C24_PrerequisitesStored ==
    \A m \in DOMAIN modules :
        \A p \in modules[m].prerequisites : p \in DOMAIN modules /\ p # m

(***************************************************************************)
(* Properties of createStudent with a login (RaceSpec).                    *)
(***************************************************************************)
\* C23, as stated: when a createStudent request with createLogin on ends,
\* in whatever outcome and interleaving, the User it stored (if any) is
\* linked by a stored Student: either both were stored or neither.
C23_LoginAllOrNothing ==
    [][\A c \in Clients :
          (/\ requests[c].op = "createStudent"
           /\ requests[c].createLogin
           /\ requests'[c] = Idle) =>
              /\ requests[c].user # 0 =>
                     /\ requests[c].user \in DOMAIN users'
                     /\ \E k \in DOMAIN students' : students'[k].user = requests[c].user
              /\ requests[c].user = 0 =>
                     /\ users' = users
                     /\ students' = students]_vars

(***************************************************************************)
(* Properties of the gate middleware (GateSpec).  A gate's step is told by *)
(* last': the gate, the client and the role the gate asks for.             *)
(***************************************************************************)
\* C25: a gate calls next exactly when the session holds a user whose
\* isActive is not false and, for admin and requireRole(role), whose role is
\* admin or the given role; every other request is answered with 401, 403
\* or a redirect, and the guarded handler is not reached.
C25_GateCallsNextExactlyWhen ==
    [][last'.op \in {"protect", "admin", "requireRole"} =>
          LET s == sessions[last'.id]
          IN  /\ last'.status = "next" <=>
                     /\ s.session
                     /\ s.id # 0
                     /\ s.isActive # "false"
                     /\ last'.op = "admin" => s.role = "admin"
                     /\ last'.op = "requireRole" => s.role = last'.role
              /\ last'.status # "next" =>
                     last'.status \in {"401", "403", "redirect_login", "redirect_home"}]_vars

\* requireRole let a user through whose session object carries no isActive,
\* while the session of the other client holds an inactive user.
C25_Witness ==
    /\ last.op = "requireRole"
    /\ last.status = "next"
    /\ sessions[last.id].isActive = "absent"
    /\ \E c \in Clients \ {last.id} : sessions[c].isActive = "false"

(***************************************************************************)
(* Properties of the session life-cycle (AuthSpec).                        *)
(***************************************************************************)
\* The step ends the login of client c with the outcome.
LoginAnswers(c, status) ==
    /\ requests[c].op = "login"
    /\ requests'[c] = Idle
    /\ last'.op = "login"
    /\ last'.id = c
    /\ last'.status = status

\* The stored active Users with the lower-cased email and the password.
Credentialed(email, password) ==
    {k \in DOMAIN users : /\ users[k].email = toLowerCase(email)
                          /\ users[k].isActive
                          /\ users[k].password = Hash(password)}

\* A user enters the session of c only by a login of c that ends "ok" with
\* the credentials of a stored active User.
EntersByLogin(c) ==
    (sessions'[c].id # 0 /\ sessions'[c] # sessions[c]) =>
        /\ LoginAnswers(c, "ok")
        /\ sessions'[c].id \in Credentialed(requests[c].email, requests[c].password)

\* After the logout of c its session holds no user, and protect lets a
\* request of c through exactly when its session holds a user.
LogoutEnds(c) ==
    /\ (last'.op = "logout" /\ last'.id = c) => sessions'[c].id = 0
    /\ (last'.op = "protect" /\ last'.id = c) =>
           (last'.status = "next" <=> sessions[c].id # 0)

\* C26, as stated: a session holds a user only after a login with the
\* credentials of a stored active User and until the next logout; a failed
\* login leaves the session without a user; after logout protect rejects the
\* session's requests until a later login succeeds.
C26_SessionLifeCycle ==
    [][\A c \in Clients :
          /\ EntersByLogin(c)
          /\ LogoutEnds(c)
          /\ LoginAnswers(c, "invalid") => sessions'[c].id = 0]_vars

\* C26, amended: as above, but a failed login leaves the session as it was:
\* without a user if it held none, and with the user of the earlier login
\* otherwise.
C26_SessionLifeCycleFailedLoginKeeps ==
    [][\A c \in Clients :
          /\ EntersByLogin(c)
          /\ LogoutEnds(c)
          /\ LoginAnswers(c, "invalid") => sessions'[c] = sessions[c]]_vars

\* A login failed in a session that holds the user of an earlier login,
\* while the other client's session was destroyed by a logout.
C26_Witness ==
    /\ last.op = "login"
    /\ last.status = "invalid"
    /\ sessions[last.id].id # 0
    /\ \E c \in Clients \ {last.id} : sessions[c] = NoSession

====
